---- MODULE Spec2Model ----
(***************************************************************************)
(* A model of aws-butler: the CloudWatch log-event walk (cloudwatch.py)    *)
(* and the SSM parameter-store commands (parameters.py).                   *)
(*                                                                         *)
(* Python values are encoded as follows.                                   *)
(*   - an optional value (None or v) is a sequence of length at most one:  *)
(*     <<>> is None and <<v>> is v;                                        *)
(*   - a str is a sequence of one-character strings, so that regular       *)
(*     expressions, os.path.join, strip, lower, upper and split can be     *)
(*     computed character by character;                                    *)
(*   - a dict is a function whose DOMAIN is its key set.                   *)
(***************************************************************************)
EXTENDS Integers, Sequences, FiniteSets, TLC

VARIABLES
    \* ---- cloudwatch.walk_log_events -------------------------------------
    limit,          \* argument limit (optional int)
    page_size,      \* argument page_size (None, an int or a str)
    next_token,     \* local next_token (optional token)
    n_events,       \* local n_events
    le_pc,          \* "start" | "loop" | "yield" | "done" | "closed" |
                    \* "TypeError"
    le_yielded,     \* number of events the generator has yielded
    le_requests,    \* number of get_log_events requests issued
    le_sent,        \* the "limit" and "nextToken" of the last request
    le_last,        \* nextForwardToken returned with the last page
    le_prev,        \* nextForwardToken returned with the page before it
    le_last_n,      \* number of events of the last page
    le_page_left,   \* events of the last page not yet yielded
    le_received,    \* number of events the responses have carried
    svc_total,      \* log service: events available in the stream
    svc_cursor,     \* log service: events already served on this cursor
    \* ---- parameters.walk_parameters ------------------------------------
    path,           \* argument path: a tuple of optional str
    wp_limit,       \* argument limit (optional int)
    get_value,      \* argument get_value
    wp_pc,          \* "idle" | "start" | "describe" | "fetch" | "page" |
                    \* "suspended" | "done" | "raised" | "closed"
    wp_q,           \* index, in the query plan, of the query being paged
    wp_pages,       \* pages the current query has returned
    wp_rest,        \* parameter store: results of the query not yet served
    wp_page,        \* the parameters of the current page not yet iterated
    wp_more,        \* whether the paginator will ask for another page
    wp_total_items, \* items the paginator has passed on for the current query
    wp_returned,    \* names the queries have returned so far
    wp_out,         \* the names yielded so far, in order
    wp_suppressed,  \* whether an item of walk() has been held back
    wp_queries,     \* the filters of the queries run so far, in order
    wp_order,       \* the names the queries returned, in first-seen order
    yielded_param_names, \* local yielded_param_names
    \* ---- parameters.diff_params ----------------------------------------
    local_params,   \* argument local_params (dict)
    remote_params,  \* argument remote_params (dict)
    diff,           \* the diff_summary returned (optional)
    df_pc,          \* "idle" | "call" | "done"
    \* ---- parameters.get_parameters -------------------------------------
    store,          \* parameter store: name -> value of the parameters held
    parameter_names,\* argument parameter_names, as a sequence
    gp_task,        \* per submitted call of get_parameter, the future's state
    gp_inspected,   \* futures as_completed has handed to the loop
    results,        \* local results (dict)
    gp_pc,          \* "idle" | "submit" | "collect" | "exit_raise" |
                    \* "raised" | "returned"
    gp_error,       \* the future whose exception is being raised (optional)
    gp_returned,    \* the dict the caller has received (optional)
    \* ---- parameters.is_valid_ssm_name ----------------------------------
    nv_name,        \* argument name (str)
    nv_result,      \* what the call returned or raised (optional)
    nv_pc,          \* "idle" | "call" | "done"
    \* ---- parameters.pull -----------------------------------------------
    env_out,        \* the env_file argument of pull: the name given, whether
                    \* the file has been opened, whether it exists
    env_text,       \* the lines the file (or the stream) holds
    \* ---- parameters.push -----------------------------------------------
    env_file,       \* dotenv_values(stream=env_file).items(), a sequence
    ps_path,        \* option --path (optional str)
    dry_run,        \* option --dry-run
    ps_run,         \* which run of the command this is (1, then 2)
    ps_pc,          \* where the command is, or how it has ended
    ps_i,           \* number of items of env_file the loop has taken
    ps_keys,        \* the keys of local_params in insertion order
    answer,         \* what the operator typed at the prompt (optional)
    net,            \* remote operations issued so far, by kind
    store0,         \* the parameter store as it was when the command began
    \* ---- parameters.put_parameters -------------------------------------
    pp_parameters,  \* argument parameters, its items as a sequence
    pp_task,        \* per submitted call of put_parameter, the future's state
    pp_inspected,   \* futures as_completed has handed to the loop
    n_applied,      \* local n_applied
    pp_pc,          \* "idle" | "submit" | "collect" | "exit_raise" |
                    \* "raised" | "returned"
    pp_error,       \* the future whose exception is being raised (optional)
    put_sent        \* the put requests sent to the parameter store

logVars == <<limit, page_size, next_token, n_events, le_pc, le_yielded,
             le_requests, le_sent, le_last, le_prev, le_last_n, le_page_left,
             le_received, svc_total, svc_cursor>>

walkVars == <<path, wp_limit, get_value, wp_pc, wp_q, wp_pages, wp_rest,
              wp_page, wp_more, wp_total_items, wp_returned, wp_out, wp_suppressed,
              wp_queries, wp_order, yielded_param_names>>

diffVars == <<local_params, remote_params, diff, df_pc>>

fetchVars == <<store, parameter_names, gp_task, gp_inspected, results, gp_pc,
               gp_error, gp_returned>>

nameVars == <<nv_name, nv_result, nv_pc>>

putVars == <<pp_parameters, pp_task, pp_inspected, n_applied, pp_pc, pp_error,
             put_sent>>

\* the variables of pull and push, without the count of remote operations
pushRest == <<env_out, env_text, env_file, ps_path, dry_run, ps_run, ps_pc, ps_i,
              ps_keys, answer, store0, putVars>>

pushVars == <<pushRest, net>>

vars == <<logVars, walkVars, diffVars, fetchVars, nameVars, pushVars>>

(***************************************************************************)
(* Python helpers                                                          *)
(***************************************************************************)
None == <<>>

Some(v) == <<v>>

\* bool(x) of an optional int: None and 0 are falsy.
Truthy(x) == x # None /\ x[1] # 0

\* bool(x) of an optional str: None and "" are falsy.
TruthyStr(x) == x # None /\ x[1] # <<>>

\* Python's  a or b  on optional ints
Or(a, b) == IF Truthy(a) THEN a ELSE b

\* an argument that is None or an int, and one that is a str
IntVal(x) == [int |-> x, str |-> None]

StrVal(x) == [int |-> None, str |-> Some(x)]

\* bool(v) of such an argument: None, 0 and "" are falsy.
TruthyVal(v) == Truthy(v.int) \/ TruthyStr(v.str)

Min(a, b) == IF a < b THEN a ELSE b

(***************************************************************************)
(* Bounds of the model                                                     *)
(***************************************************************************)
MaxTotal == 4          \* events in the log stream: 0..MaxTotal
MaxCap == 3            \* small values of limit and page_size: 0..MaxCap
MaxRequests == 4       \* requests one traversal may issue in the model
MaxPaths == 2          \* path filters given to walk_parameters: 0..MaxPaths
MaxItems == 2          \* values of walk_parameters' limit: 0..MaxItems
MaxPageLen == 2        \* parameters on one page of describe_parameters
MaxPages == 2          \* pages one describe_parameters query returns
MaxBatch == 3          \* names in one call of get_parameters: 0..MaxBatch
MaxWorkers == 5        \* threads of the pool: min(32, cpu_count + 4) >= 5
MaxHead == 3           \* free characters at the head of a name: 0..MaxHead
MaxTail == 16          \* "/L" segments appended to a name: 0..MaxTail
MaxEnv == 2            \* items of the environment file given to push
MaxRuns == 2           \* runs of push on the same file, one after the other

(***************************************************************************)
(* The state of each part while another part is being run                  *)
(***************************************************************************)
\* the walk_log_events variables when no log walk is running
IdleLog ==
    /\ limit = None
    /\ page_size = IntVal(None)
    /\ svc_total = 0
    /\ next_token = None
    /\ n_events = 0
    /\ le_pc = "idle"
    /\ le_yielded = 0
    /\ le_requests = 0
    /\ le_sent = [limit |-> 0, nextToken |-> None]
    /\ le_last = None
    /\ le_prev = None
    /\ le_last_n = 0
    /\ le_page_left = 0
    /\ le_received = 0
    /\ svc_cursor = 0

\* the walk_parameters variables when no parameter walk is running
IdleWalk ==
    /\ path = <<>>
    /\ wp_limit = None
    /\ get_value = FALSE
    /\ wp_pc = "idle"
    /\ wp_q = 0
    /\ wp_pages = 0
    /\ wp_rest = <<>>
    /\ wp_page = <<>>
    /\ wp_more = FALSE
    /\ wp_total_items = 0
    /\ wp_returned = {}
    /\ wp_out = <<>>
    /\ wp_suppressed = FALSE
    /\ wp_queries = <<>>
    /\ wp_order = <<>>
    /\ yielded_param_names = {}

\* the diff_params variables when diff_params is not being run
IdleDiff ==
    /\ local_params = <<>>
    /\ remote_params = <<>>
    /\ diff = None
    /\ df_pc = "idle"

\* the get_parameters variables when get_parameters is not being run
IdleGet ==
    /\ parameter_names = <<>>
    /\ gp_task = <<>>
    /\ gp_inspected = {}
    /\ results = <<>>
    /\ gp_pc = "idle"
    /\ gp_error = None
    /\ gp_returned = None

IdleFetch == store = <<>> /\ IdleGet

\* the put_parameters variables when put_parameters is not being run
IdlePut ==
    /\ pp_parameters = <<>>
    /\ pp_task = <<>>
    /\ pp_inspected = {}
    /\ n_applied = 0
    /\ pp_pc = "idle"
    /\ pp_error = None
    /\ put_sent = {}

\* lines 262, 275: the argument "-" of click.File, the default one: the
\* standard output of pull and the standard input of push, a stream that is
\* open from the start
StdStream == [name |-> "-", opened |-> TRUE, exists |-> TRUE]

\* the push variables when push is not being run
IdlePush ==
    /\ env_out = StdStream
    /\ env_text = <<>>
    /\ env_file = <<>>
    /\ ps_path = None
    /\ dry_run = FALSE
    /\ ps_run = 0
    /\ ps_pc = "idle"
    /\ ps_i = 0
    /\ ps_keys = <<>>
    /\ answer = None
    /\ net = [describe |-> 0, get |-> 0, put |-> 0]
    /\ store0 = <<>>
    /\ IdlePut

\* the is_valid_ssm_name variables when it is not being run
IdleName ==
    /\ nv_name = <<>>
    /\ nv_result = None
    /\ nv_pc = "idle"

(***************************************************************************)
(* cloudwatch.walk_log_events                                              *)
(***************************************************************************)
\* the service's hard maximum of events per page
MAX_PAGE == 10000

Tokens == {<<"f", "1">>, <<"f", "2">>}

OptTokens == {None} \cup {Some(t) : t \in Tokens}

\* values a caller passes as limit, and as page_size when it is an int
CapValues == {None} \cup {Some(k) : k \in 0..MaxCap}
                \cup {Some(MAX_PAGE), Some(MAX_PAGE + 1)}

\* values of page_size: the callers in the module pass None or an int, the
\* command cat passes the text of its option --page-size, which is a str
PageSizeValues == {IntVal(c) : c \in CapValues}
                    \cup {StrVal(<<"5">>), StrVal(<<>>)}

\* line 100:  _limit = page_size or limit or 10_000
_limit(ps, lim) ==
    IF TruthyVal(ps) THEN ps ELSE IntVal(Or(lim, Some(MAX_PAGE)))

\* line 103:  _limit < 10_000  raises TypeError when _limit is a str
kwargs_raises(ps, lim) == _limit(ps, lim).str # None

\* line 103:  "limit": _limit if _limit < 10_000 else 10_000
kwargs_limit(ps, lim) ==
    IF _limit(ps, lim).int[1] < MAX_PAGE THEN _limit(ps, lim).int[1]
                                         ELSE MAX_PAGE

\* line 107: the nextToken key is sent only when next_token is truthy
sent_token(tok) == IF TruthyStr(tok) THEN tok ELSE None

\* a stop test that looks at the cap only
stop_test_cap_only(tok, resp_tok, lim, n) ==
    Truthy(lim) /\ n >= lim[1]

\* line 110: the stop test, evaluated after the page has been yielded
stop_test(tok, resp_tok, lim, n) ==
    tok = resp_tok \/ (Truthy(lim) /\ n >= lim[1])

InitLog ==
    /\ IdlePush
    /\ IdleName
    /\ IdleFetch
    /\ IdleWalk
    /\ IdleDiff
    /\ limit \in CapValues
    /\ page_size \in PageSizeValues
    /\ svc_total \in 0..MaxTotal
    /\ next_token = None
    /\ n_events = 0
    /\ le_pc = "start"
    /\ le_yielded = 0
    /\ le_requests = 0
    /\ le_sent = [limit |-> 0, nextToken |-> None]
    /\ le_last = None
    /\ le_prev = None
    /\ le_last_n = 0
    /\ le_page_left = 0
    /\ le_received = 0
    /\ svc_cursor = 0

\* lines 98-105: on the first next() the generator runs up to the loop;
\* building kwargs raises TypeError when _limit is a str.
walk_log_events_start ==
    /\ le_pc = "start"
    /\ le_pc' = IF kwargs_raises(page_size, limit) THEN "TypeError" ELSE "loop"
    /\ next_token' = None
    /\ n_events' = 0
    /\ UNCHANGED <<limit, page_size, le_yielded, le_requests, le_sent,
                   le_last, le_prev, le_last_n, le_page_left, le_received,
                   svc_total, svc_cursor>>
    /\ UNCHANGED <<walkVars, diffVars, fetchVars, nameVars, pushVars>>

\* The log service answers a request: without a token it reads from the
\* start of the stream, with a token it goes on from where the cursor is.
\* It returns at most "limit" events and any next token, or none.
svc_start(tok) == IF tok = None THEN 0 ELSE svc_cursor

\* line 107: request a page and receive the response
walk_log_events_request ==
    /\ le_pc = "loop"
    /\ le_requests < MaxRequests
    /\ LET tok == sent_token(next_token)
           lim == kwargs_limit(page_size, limit)
           from == svc_start(tok)
       IN \E n \in 0..Min(lim, svc_total - from), resp_tok \in OptTokens :
            /\ le_sent' = [limit |-> lim, nextToken |-> tok]
            /\ le_requests' = le_requests + 1
            /\ svc_cursor' = from + n
            /\ le_last_n' = n
            /\ le_page_left' = n
            /\ le_received' = le_received + n
            /\ le_prev' = le_last
            /\ le_last' = resp_tok
    /\ le_pc' = "yield"
    /\ UNCHANGED <<limit, page_size, next_token, n_events, le_yielded,
                   svc_total>>
    /\ UNCHANGED <<walkVars, diffVars, fetchVars, nameVars, pushVars>>

\* line 108: yield from hands the next event of the page to the consumer
\* and the generator is suspended there
walk_log_events_yield ==
    /\ le_pc = "yield"
    /\ le_page_left > 0
    /\ le_yielded' = le_yielded + 1
    /\ le_page_left' = le_page_left - 1
    /\ UNCHANGED <<limit, page_size, next_token, n_events, le_pc,
                   le_requests, le_sent, le_last, le_prev, le_last_n,
                   le_received, svc_total, svc_cursor>>
    /\ UNCHANGED <<walkVars, diffVars, fetchVars, nameVars, pushVars>>

\* lines 109-112: once the page is exhausted its events are counted, then
\* the walk stops or keeps the token for the next request
walk_log_events_count ==
    /\ le_pc = "yield"
    /\ le_page_left = 0
    /\ n_events' = n_events + le_last_n
    /\ IF stop_test(next_token, le_last, limit, n_events + le_last_n)
         THEN le_pc' = "done" /\ UNCHANGED next_token
         ELSE le_pc' = "loop" /\ next_token' = le_last
    /\ UNCHANGED <<limit, page_size, le_yielded, le_requests, le_sent,
                   le_last, le_prev, le_last_n, le_page_left, le_received,
                   svc_total, svc_cursor>>
    /\ UNCHANGED <<walkVars, diffVars, fetchVars, nameVars, pushVars>>

\* the generator is suspended at line 108 with an event handed over
suspended_at_yield == le_pc = "yield" /\ le_page_left < le_last_n

\* the consumer stops taking events (a pager that is quit, a consumer that
\* raises): the generator is closed where it is suspended
walk_log_events_close ==
    /\ suspended_at_yield
    /\ le_pc' = "closed"
    /\ UNCHANGED <<limit, page_size, next_token, n_events, le_yielded,
                   le_requests, le_sent, le_last, le_prev, le_last_n,
                   le_page_left, le_received, svc_total, svc_cursor>>
    /\ UNCHANGED <<walkVars, diffVars, fetchVars, nameVars, pushVars>>

NextLog ==
    \/ walk_log_events_start
    \/ walk_log_events_request
    \/ walk_log_events_yield
    \/ walk_log_events_count
    \/ walk_log_events_close

SpecLog == InitLog /\ [][NextLog]_vars

\* the last page came back with the token of the page before it, which is
\* the token that was sent with the request
TokenNotAdvanced ==
    /\ le_requests >= 1
    /\ \/ le_last = le_sent.nextToken
       \/ le_requests >= 2 /\ le_last = le_prev

\* the cap, when one is given and counts, has been reached
CapReached == Truthy(limit) /\ n_events >= limit[1]

\* C1: when page N comes back with the next token of page N-1 (the token
\* just sent), no further request is issued, with or without a cap and
\* whatever is left in the stream: the events of page N are handed over
\* and, unless the consumer has closed the walk, the walk then returns
\* normally having yielded every event it received, page N's included.
C1_StopsOnTokenNotAdvanced ==
    TokenNotAdvanced =>
        /\ le_pc \in {"yield", "closed", "done"}
        /\ le_pc = "done" => (n_events = le_received /\ le_yielded = n_events)

\* C1 witness: a second page, not empty, repeats a real token while events
\* remain in the stream and no cap has been reached; the walk has returned
\* after yielding the page.
C1_Witness ==
    /\ le_requests >= 2
    /\ le_last = le_prev
    /\ le_last # None
    /\ le_last_n > 0
    /\ svc_cursor < svc_total
    /\ ~CapReached
    /\ le_pc = "done"
    /\ le_yielded = le_received

\* C2: with limit = k (k >= 0) a traversal yields at most k events, and
\* exactly min(k, total available) once it is over when k is smaller than
\* the total available.
C2_CapRespected ==
    limit # None =>
        /\ le_yielded <= limit[1]
        /\ (le_pc = "done" /\ limit[1] < svc_total)
              => le_yielded = Min(limit[1], svc_total)

\* C12: whenever a response carries no next token, on the first request
\* or after a request that sent a token, the walk ends with that page: once
\* the page has been yielded no further request is issued, and so none that
\* would read the stream again from its start.
C12_StopsOnNoToken ==
    (le_requests >= 1 /\ le_last = None) => le_pc # "loop"

\* the size of the page a request would ask for if there were no cap
OnePage ==
    IF Truthy(page_size.int) THEN Min(page_size.int[1], MAX_PAGE) ELSE MAX_PAGE

\* C13: the limit sent with every request is at most 10000, and when a cap
\* is given that is smaller than one page it is min(cap, 10000), whatever
\* the cap and the page size of the caller are.
C13_PageSize ==
    le_requests >= 1 =>
      /\ le_sent.limit <= 10000
      /\ (limit # None /\ limit[1] < OnePage)
            => le_sent.limit = Min(limit[1], 10000)

(***************************************************************************)
(* parameters.diff_params                                                  *)
(***************************************************************************)
\* d[k] = v on a dict
Put(d, k, v) == [x \in DOMAIN d \cup {k} |-> IF x = k THEN v ELSE d[x]]

\* every dict with keys in K and values in V
Dicts(K, V) == UNION {[D -> V] : D \in SUBSET K}

\* a change whose fields are taken the other way round
change_swapped(old, new) == [old |-> new, new |-> old]

\* line 21:  change = namedtuple("change", "old new")
change(old, new) == [old |-> old, new |-> new]

\* line 20:  diff_summary = namedtuple("diff_summary", "unchanged new changed")
diff_summary(unchanged, new, changed) ==
    [unchanged |-> unchanged, new |-> new, changed |-> changed]

\* a classification that files a changed key under new
classify_changed_as_new(acc, local_key, local_value, remote) ==
    IF local_key \in DOMAIN remote /\ local_value = remote[local_key]
      THEN [acc EXCEPT !.unchanged = Put(@, local_key, local_value)]
      ELSE [acc EXCEPT !.new = Put(@, local_key, local_value)]

\* lines 155-161: the body of the loop, for one item of local_params
classify(acc, local_key, local_value, remote) ==
    IF local_key \in DOMAIN remote
      THEN IF local_value = remote[local_key]
             THEN [acc EXCEPT !.unchanged = Put(@, local_key, local_value)]
             ELSE [acc EXCEPT !.changed =
                      Put(@, local_key, change(remote[local_key], local_value))]
      ELSE [acc EXCEPT !.new = Put(@, local_key, local_value)]

\* lines 154-161: the loop over local_params.items()
RECURSIVE diff_loop(_, _, _, _)
diff_loop(acc, keys, local, remote) ==
    IF keys = {} THEN acc
    ELSE LET k == CHOOSE x \in keys : TRUE
         IN diff_loop(classify(acc, k, local[k], remote),
                      keys \ {k}, local, remote)

\* lines 150-199 (the echo calls print the summary and change no state)
diff_params(local, remote) ==
    LET acc == diff_loop([unchanged |-> <<>>, changed |-> <<>>, new |-> <<>>],
                         DOMAIN local, local, remote)
    IN diff_summary(acc.unchanged, acc.new, acc.changed)

DiffKeys == { <<"x">>, <<"y">>, <<"z">> }

DiffValues == { <<"1">>, <<"2">>, <<"9">> }

InitDiff ==
    /\ IdlePush
    /\ IdleName
    /\ IdleLog
    /\ IdleFetch
    /\ IdleWalk
    /\ local_params \in Dicts(DiffKeys, DiffValues)
    /\ remote_params \in Dicts(DiffKeys, DiffValues)
    /\ diff = None
    /\ df_pc = "call"

diff_params_call ==
    /\ df_pc = "call"
    /\ diff' = Some(diff_params(local_params, remote_params))
    /\ df_pc' = "done"
    /\ UNCHANGED <<local_params, remote_params>>
    /\ UNCHANGED <<logVars, walkVars, fetchVars, nameVars, pushVars>>

NextDiff == diff_params_call

SpecDiff == InitDiff /\ [][NextDiff]_vars

\* C4: the result is the three-way classification of the local keys:
\* unchanged holds local[k] for the keys whose remote value is the same,
\* changed holds (old = remote[k], new = local[k]) for the keys whose remote
\* value differs, new holds local[k] for the keys absent from remote; the
\* three key sets are pairwise disjoint, their union is the set of local
\* keys, and a key of remote alone is in none of them.
C4_DiffIsClassification ==
    df_pc = "done" =>
      LET r == diff[1]
          U == DOMAIN r.unchanged
          C == DOMAIN r.changed
          N == DOMAIN r.new
          L == DOMAIN local_params
          R == DOMAIN remote_params
      IN /\ \A k \in L :
               /\ k \in U <=> (k \in R /\ remote_params[k] = local_params[k])
               /\ k \in C <=> (k \in R /\ remote_params[k] # local_params[k])
               /\ k \in N <=> k \notin R
         /\ \A k \in U : r.unchanged[k] = local_params[k]
         /\ \A k \in C : /\ r.changed[k].old = remote_params[k]
                         /\ r.changed[k].new = local_params[k]
         /\ \A k \in N : r.new[k] = local_params[k]
         /\ U \cap C = {} /\ U \cap N = {} /\ C \cap N = {}
         /\ U \cup C \cup N = L
         /\ \A k \in R \ L : k \notin U \cup C \cup N

\* C4 witness: a diff with one key in each class and a key of remote alone
C4_Witness ==
    /\ df_pc = "done"
    /\ local_params = (<<"x">> :> <<"1">>) @@ (<<"y">> :> <<"2">>)
    /\ remote_params = (<<"x">> :> <<"1">>) @@ (<<"z">> :> <<"9">>)
    /\ DOMAIN diff[1].unchanged = {<<"x">>}
    /\ DOMAIN diff[1].new = {<<"y">>}

C5_local == (<<"x">> :> <<"1">>) @@ (<<"y">> :> <<"2">>)

C5_remote == (<<"x">> :> <<"1">>) @@ (<<"y">> :> <<"9">>)

\* C5 as stated: diff({"x":"1","y":"2"}, {"x":"1","y":"9"}) has
\* unchanged = {"x":"1"}, changed = {"y": (old "9", new "1")}, new = {}.
C5_ExampleAsStated ==
    (df_pc = "done" /\ local_params = C5_local /\ remote_params = C5_remote)
      => diff[1] = diff_summary(<<"x">> :> <<"1">>, <<>>,
                                <<"y">> :> [old |-> <<"9">>, new |-> <<"1">>])

\* C5 amended: diff({"x":"1","y":"2"}, {"x":"1","y":"9"}) has
\* unchanged = {"x":"1"}, changed = {"y": (old "9", new "2")}, new = {}:
\* the new value of a changed key is its local value.
C5_Example ==
    (df_pc = "done" /\ local_params = C5_local /\ remote_params = C5_remote)
      => diff[1] = diff_summary(<<"x">> :> <<"1">>, <<>>,
                                <<"y">> :> [old |-> <<"9">>, new |-> <<"2">>])

\* C5 witness: diff_params has returned for the maps of the example
C5_Witness ==
    df_pc = "done" /\ local_params = C5_local /\ remote_params = C5_remote

(***************************************************************************)
(* parameters.get_parameters                                               *)
(***************************************************************************)
\* the names of the parameters of the model
ParamNames == { <<"/", "a">>, <<"/", "a", "/", "b">> }

SeqsUpTo(S, n) == UNION {[1..k -> S] : k \in 0..n}

StoreValues == { <<"1">>, <<"2">> }

Stores == Dicts(ParamNames, StoreValues)

Finished(st) == st \in {"ok", "failed"}

\* futures that are running on a worker thread
Running == {i \in DOMAIN gp_task : gp_task[i] = "running"}

\* an as_completed that hands over the successful futures only
as_completed_ok_only(tasks, inspected) ==
    {i \in DOMAIN tasks : tasks[i] = "ok" /\ i \notin inspected}

\* line 62: as_completed hands over each finished future once, those that
\* are finished when it is called in any order, the others as they finish
as_completed(tasks, inspected) ==
    {i \in DOMAIN tasks : Finished(tasks[i]) /\ i \notin inspected}

\* an exit of the with block that does not wait for the submitted calls
shutdown_nowait(tasks) == TRUE

\* lines 60, 88: leaving the with block calls executor.shutdown(wait=True),
\* which returns once every submitted call has finished; no call is
\* cancelled
shutdown_wait(tasks) == \A i \in DOMAIN tasks : Finished(tasks[i])

\* lines 52-53: get_parameter returns the parameter held under the name, and
\* raises when there is none (or when the call fails)
get_parameter_can_succeed(name) == name \in DOMAIN store

InitFetch ==
    /\ IdlePush
    /\ IdleName
    /\ IdleLog
    /\ IdleWalk
    /\ IdleDiff
    /\ store \in Stores
    /\ parameter_names \in SeqsUpTo(ParamNames, MaxBatch)
    /\ gp_task = <<>>
    /\ gp_inspected = {}
    /\ results = <<>>
    /\ gp_pc = "submit"
    /\ gp_error = None
    /\ gp_returned = None

\* line 61: executor.submit for the next name; the future is queued
get_parameters_submit ==
    /\ gp_pc = "submit"
    /\ Len(gp_task) < Len(parameter_names)
    /\ gp_task' = Append(gp_task, "queued")
    /\ UNCHANGED <<store, parameter_names, gp_inspected, results, gp_pc,
                   gp_error, gp_returned>>
    /\ UNCHANGED <<logVars, walkVars, diffVars, nameVars, pushVars>>

\* line 62: every name has been submitted, the loop over as_completed starts
get_parameters_submitted ==
    /\ gp_pc = "submit"
    /\ Len(gp_task) = Len(parameter_names)
    /\ gp_pc' = "collect"
    /\ UNCHANGED <<store, parameter_names, gp_task, gp_inspected, results,
                   gp_error, gp_returned>>
    /\ UNCHANGED <<logVars, walkVars, diffVars, nameVars, pushVars>>

\* lines 52-53: a worker thread that has taken a call issues its get
\* request.  The threads take the calls oldest first but overtake each
\* other before they reach the client, so the request of any submitted
\* call that has not started may be the next one issued.
worker_start ==
    /\ Cardinality(Running) < MaxWorkers
    /\ \E i \in DOMAIN gp_task :
         /\ gp_task[i] = "queued"
         /\ gp_task' = [gp_task EXCEPT ![i] = "running"]
    /\ net' = [net EXCEPT !.get = @ + 1]
    /\ UNCHANGED <<store, parameter_names, gp_inspected, results, gp_pc,
                   gp_error, gp_returned>>
    /\ UNCHANGED <<logVars, walkVars, diffVars, nameVars, pushRest>>

\* lines 52-53: a running get_parameter returns
worker_return ==
    /\ \E i \in Running :
         /\ get_parameter_can_succeed(parameter_names[i])
         /\ gp_task' = [gp_task EXCEPT ![i] = "ok"]
    /\ UNCHANGED <<store, parameter_names, gp_inspected, results, gp_pc,
                   gp_error, gp_returned>>
    /\ UNCHANGED <<logVars, walkVars, diffVars, nameVars, pushVars>>

\* lines 52-53: a running get_parameter raises
worker_raise ==
    /\ \E i \in Running : gp_task' = [gp_task EXCEPT ![i] = "failed"]
    /\ UNCHANGED <<store, parameter_names, gp_inspected, results, gp_pc,
                   gp_error, gp_returned>>
    /\ UNCHANGED <<logVars, walkVars, diffVars, nameVars, pushVars>>

\* lines 62-65: one turn of the loop: the future as_completed hands over
\* either has an exception, which is raised, or a result, which is stored
get_parameters_inspect ==
    /\ gp_pc = "collect"
    /\ \E i \in as_completed(gp_task, gp_inspected) :
         /\ gp_inspected' = gp_inspected \cup {i}
         /\ IF gp_task[i] = "failed"
              THEN /\ gp_error' = Some(i)
                   /\ gp_pc' = "exit_raise"
                   /\ UNCHANGED results
              ELSE /\ results' = Put(results, parameter_names[i],
                                     store[parameter_names[i]])
                   /\ UNCHANGED <<gp_error, gp_pc>>
    /\ UNCHANGED <<store, parameter_names, gp_task, gp_returned>>
    /\ UNCHANGED <<logVars, walkVars, diffVars, nameVars, pushVars>>

\* lines 60, 67: every future has been handed over; the with block is left
\* (no call is pending any more) and results is returned
get_parameters_return ==
    /\ gp_pc = "collect"
    /\ gp_inspected = DOMAIN gp_task
    /\ gp_pc' = "returned"
    /\ gp_returned' = Some(results)
    /\ UNCHANGED <<store, parameter_names, gp_task, gp_inspected, results,
                   gp_error>>
    /\ UNCHANGED <<logVars, walkVars, diffVars, nameVars, pushVars>>

\* lines 60, 64: the exception leaves the with block, whose exit waits
\* for every submitted call to finish, and reaches the caller
get_parameters_raise ==
    /\ gp_pc = "exit_raise"
    /\ shutdown_wait(gp_task)
    /\ gp_pc' = "raised"
    /\ UNCHANGED <<store, parameter_names, gp_task, gp_inspected, results,
                   gp_error, gp_returned>>
    /\ UNCHANGED <<logVars, walkVars, diffVars, nameVars, pushVars>>

NextFetch ==
    \/ get_parameters_submit
    \/ get_parameters_submitted
    \/ worker_start
    \/ worker_return
    \/ worker_raise
    \/ get_parameters_inspect
    \/ get_parameters_return
    \/ get_parameters_raise

SpecFetch == InitFetch /\ [][NextFetch]_vars

Failed == {i \in DOMAIN gp_task : gp_task[i] = "failed"}

RequestedNames == {parameter_names[i] : i \in DOMAIN parameter_names}

\* C6: whatever the batch and the order in which the calls finish, a call
\* of get_parameters that ends with a failed task ends by raising the error
\* of a failed task and hands no dict to the caller; a call that returns
\* has no failed task and returns a dict whose keys are exactly the
\* requested names; and the call cannot get stuck before it ends.
C6_FailFast ==
    /\ gp_pc = "raised" =>
         /\ gp_error # None /\ gp_error[1] \in Failed
         /\ gp_returned = None
    /\ gp_pc = "returned" =>
         /\ Failed = {}
         /\ gp_returned # None
         /\ DOMAIN gp_returned[1] = RequestedNames
    /\ gp_pc \in {"raised", "returned"} =>
         (Failed # {} <=> gp_pc = "raised")
    /\ gp_pc \notin {"raised", "returned"} => ENABLED NextFetch

\* C6 witness: three names, the second call failed and the two others
\* returned, one of them inspected before the failure; the call has raised
C6_Witness ==
    /\ gp_pc = "raised"
    /\ Len(parameter_names) = 3
    /\ gp_task = <<"ok", "failed", "ok">>
    /\ results # <<>>
    /\ gp_returned = None

(***************************************************************************)
(* parameters.walk_parameters                                              *)
(***************************************************************************)
\* the elements of a set as a sequence, in an order fixed for each set
RECURSIVE SeqOf(_)
SeqOf(S) ==
    IF S = {} THEN <<>>
    ELSE LET x == CHOOSE y \in S : TRUE IN <<x>> \o SeqOf(S \ {x})

\* the part of str before its last "/" (the path a parameter lies under)
parent(str) ==
    LET slashes == {i \in 1..Len(str) : str[i] = "/"}
    IN IF slashes = {} THEN <<>>
       ELSE SubSeq(str, 1, (CHOOSE i \in slashes : \A j \in slashes : j <= i) - 1)

\* a describe_parameters that reads a Name filter as a Path filter
describe_parameters_children_only(st, filter) ==
    CASE filter.Key \in {"Name", "Path"} ->
           {n \in DOMAIN st : parent(n) = filter.Values}
      [] OTHER -> DOMAIN st

\* describe_parameters on the store: a Name filter gives the parameter of
\* that name, a Path filter those lying directly under the path, no filter
\* gives them all
describe_parameters(st, filter) ==
    CASE filter.Key = "Name" -> {n \in DOMAIN st : n = filter.Values}
      [] filter.Key = "Path" -> {n \in DOMAIN st : parent(n) = filter.Values}
      [] OTHER -> DOMAIN st

\* lines 142-147: pass on the items of walk() whose Name has not been
\* yielded before; the result is the output and the set of yielded names.
RECURSIVE dedup(_, _, _)
dedup_keep_all(out, seen, items) ==
    [out |-> out \o items,
     seen |-> seen \cup {items[i] : i \in 1..Len(items)}]

dedup(out, seen, items) ==
    IF items = <<>> THEN [out |-> out, seen |-> seen]
    ELSE IF Head(items) \notin seen
         THEN dedup(Append(out, Head(items)), seen \cup {Head(items)},
                    Tail(items))
         ELSE dedup(out, seen, Tail(items))

\* the items of a page whose name is not in seen and not earlier on the
\* page, in the order of the page
first_seen(items, seen) ==
    LET f[k \in 0..Len(items)] ==
          IF k = 0 THEN <<>>
          ELSE IF /\ items[k] \notin seen
                  /\ \A j \in 1..(k - 1) : items[j] # items[k]
                 THEN Append(f[k - 1], items[k])
                 ELSE f[k - 1]
    IN f[Len(items)]

\* filters that query a path as a prefix only
filters_of_prefix_only(_path) ==
    IF TruthyStr(_path)
      THEN << [Key |-> "Path", Values |-> _path[1]] >>
      ELSE << [Key |-> "", Values |-> <<>>] >>

\* lines 116-121: the filters of one element of path
filters_of(_path) ==
    IF TruthyStr(_path)
      THEN << [Key |-> "Path", Values |-> _path[1]],
              [Key |-> "Name", Values |-> _path[1]] >>
      ELSE << [Key |-> "", Values |-> <<>>] >>

\* line 112:  path = path if path else (None, )
path_or_default(p) == IF p # <<>> THEN p ELSE <<None>>

\* lines 115-123: the queries of one traversal, in the order they are run
RECURSIVE plan_of(_)
plan_of(p) == IF p = <<>> THEN <<>> ELSE filters_of(Head(p)) \o plan_of(Tail(p))

query_plan(p) == plan_of(path_or_default(p))

\* line 127: the paginator passes on at most MaxItems items of one query:
\* the page that would exceed it is cut, and the query ends there.
paginate_cut(page, total_items, max_items) ==
    IF max_items # None /\ total_items + Len(page) > max_items[1]
      THEN SubSeq(page, 1, max_items[1] - total_items)
      ELSE page

paginate_ends(page, total_items, max_items, more) ==
    \/ max_items # None /\ total_items + Len(page) >= max_items[1]
    \/ ~more

PathValues == {None, Some(<<"/", "a">>), Some(<<"/", "a", "/", "b">>)}

\* the elements of a sequence
Range(seq) == {seq[i] : i \in 1..Len(seq)}

\* the stores a walk is run against: any set of the names, under one value
WalkStores == Dicts(ParamNames, { <<"1">> })

InitWalk ==
    /\ IdlePush
    /\ IdleName
    /\ IdleGet
    /\ IdleLog
    /\ IdleDiff
    /\ store \in WalkStores
    /\ path \in SeqsUpTo(PathValues, MaxPaths)
    /\ wp_limit \in {None} \cup {Some(k) : k \in 0..MaxItems}
    /\ get_value \in BOOLEAN
    /\ wp_pc = "start"
    /\ wp_q = 0
    /\ wp_pages = 0
    /\ wp_rest = <<>>
    /\ wp_page = <<>>
    /\ wp_more = FALSE
    /\ wp_total_items = 0
    /\ wp_returned = {}
    /\ wp_out = <<>>
    /\ wp_suppressed = FALSE
    /\ wp_queries = <<>>
    /\ wp_order = <<>>
    /\ yielded_param_names = {}

\* lines 111-115, 142-144: the first next() runs the generator up to the
\* first query
walk_parameters_start ==
    /\ wp_pc = "start"
    /\ wp_pc' = "describe"
    /\ wp_q' = 1
    /\ yielded_param_names' = {}
    /\ UNCHANGED <<path, wp_limit, get_value, wp_pages, wp_rest, wp_page,
                   wp_more, wp_total_items, wp_returned, wp_out,
                   wp_suppressed, wp_queries, wp_order>>
    /\ UNCHANGED <<logVars, diffVars, fetchVars, nameVars, pushVars>>

\* lines 124-133: the paginator requests the next page of the current
\* query.  The request may fail, which ends the walk with the error.
\* Otherwise the store serves some of the results it has left for the query
\* (with a token when there are more), the paginator cuts the page to
\* MaxItems, and get_parameters is called with the names of the page when
\* get_value is set.
walk_parameters_describe ==
    /\ wp_pc = "describe"
    /\ net' = [net EXCEPT !.describe = @ + 1]
    /\ wp_queries' = IF wp_pages = 0
                       THEN Append(wp_queries, query_plan(path)[wp_q])
                       ELSE wp_queries
    /\ LET rest == IF wp_pages = 0
                     THEN SeqOf(describe_parameters(store,
                                                    query_plan(path)[wp_q]))
                     ELSE wp_rest
       IN \/ /\ wp_pc' = "raised"
             /\ UNCHANGED <<wp_pages, wp_rest, wp_page, wp_more,
                            wp_total_items, wp_returned>>
             /\ UNCHANGED <<parameter_names, gp_task, gp_inspected, results,
                            gp_pc, gp_error, gp_returned>>
          \/ \E n \in 0..Min(MaxPageLen, Len(rest)), more \in BOOLEAN :
               /\ Len(rest) - n > 0 => more
               /\ more => wp_pages + 1 < MaxPages
               /\ Len(rest) - n <= MaxPageLen * (MaxPages - wp_pages - 1)
               /\ LET raw == SubSeq(rest, 1, n)
                      parameters == paginate_cut(raw, wp_total_items, wp_limit)
                  IN /\ wp_rest' = SubSeq(rest, n + 1, Len(rest))
                     /\ wp_page' = parameters
                     /\ wp_more' = ~paginate_ends(raw, wp_total_items,
                                                  wp_limit, more)
                     /\ wp_returned' = wp_returned \cup Range(parameters)
                     /\ wp_pages' = wp_pages + 1
                     /\ wp_total_items' = wp_total_items + Len(parameters)
                     /\ IF get_value
                          THEN /\ wp_pc' = "fetch"
                               /\ parameter_names' = parameters
                               /\ gp_task' = <<>>
                               /\ gp_inspected' = {}
                               /\ results' = <<>>
                               /\ gp_pc' = "submit"
                               /\ gp_error' = None
                               /\ gp_returned' = None
                          ELSE /\ wp_pc' = "page"
                               /\ UNCHANGED <<parameter_names, gp_task,
                                              gp_inspected, results, gp_pc,
                                              gp_error, gp_returned>>
    /\ UNCHANGED <<path, wp_limit, get_value, wp_q, wp_out, wp_suppressed,
                   wp_order, yielded_param_names, store>>
    /\ UNCHANGED <<logVars, diffVars, nameVars, pushRest>>

\* lines 133-135: get_parameters has returned the values of the page
walk_parameters_fetched ==
    /\ wp_pc = "fetch"
    /\ gp_pc = "returned"
    /\ wp_pc' = "page"
    /\ UNCHANGED <<path, wp_limit, get_value, wp_q, wp_pages, wp_rest,
                   wp_page, wp_more, wp_total_items, wp_returned, wp_out,
                   wp_suppressed, wp_queries, wp_order, yielded_param_names>>
    /\ UNCHANGED <<logVars, diffVars, fetchVars, nameVars, pushVars>>

\* line 133: get_parameters has raised; the error ends the walk
walk_parameters_fetch_raised ==
    /\ wp_pc = "fetch"
    /\ gp_pc = "raised"
    /\ wp_pc' = "raised"
    /\ UNCHANGED <<path, wp_limit, get_value, wp_q, wp_pages, wp_rest,
                   wp_page, wp_more, wp_total_items, wp_returned, wp_out,
                   wp_suppressed, wp_queries, wp_order, yielded_param_names>>
    /\ UNCHANGED <<logVars, diffVars, fetchVars, nameVars, pushVars>>

\* lines 135-140, 144-146: walk() yields the next parameter of the page;
\* when its name has not been yielded before it is yielded to the consumer
\* and the generator is suspended at line 146, its name not yet added to
\* yielded_param_names; otherwise it is held back
walk_parameters_item ==
    /\ wp_pc = "page"
    /\ wp_page # <<>>
    /\ LET d == dedup(wp_out, yielded_param_names, <<Head(wp_page)>>)
       IN /\ wp_out' = d.out
          /\ IF d.out # wp_out
               THEN wp_pc' = "suspended" /\ UNCHANGED wp_suppressed
               ELSE wp_pc' = "page" /\ wp_suppressed' = TRUE
    /\ wp_order' = wp_order \o first_seen(<<Head(wp_page)>>, Range(wp_order))
    /\ wp_page' = Tail(wp_page)
    /\ UNCHANGED <<path, wp_limit, get_value, wp_q, wp_pages, wp_rest,
                   wp_more, wp_total_items, wp_returned, wp_queries,
                   yielded_param_names>>
    /\ UNCHANGED <<logVars, diffVars, fetchVars, nameVars, pushVars>>

\* lines 123, 130: the page is exhausted: the paginator goes on with the
\* next page, or the walk moves to the next query of the plan, or, after
\* the last one, both generators return
walk_parameters_page_end ==
    /\ wp_pc = "page"
    /\ wp_page = <<>>
    /\ IF wp_more
         THEN /\ wp_pc' = "describe"
              /\ UNCHANGED <<wp_q, wp_pages, wp_rest, wp_total_items>>
         ELSE /\ wp_q' = wp_q + 1
              /\ wp_pages' = 0
              /\ wp_rest' = <<>>
              /\ wp_total_items' = 0
              /\ wp_pc' = IF wp_q = Len(query_plan(path)) THEN "done"
                                                          ELSE "describe"
    /\ wp_more' = FALSE
    /\ UNCHANGED <<path, wp_limit, get_value, wp_page, wp_returned, wp_out,
                   wp_suppressed, wp_queries, wp_order, yielded_param_names>>
    /\ UNCHANGED <<logVars, diffVars, fetchVars, nameVars, pushVars>>

\* the parameter the generator has handed over at line 146
yielded_name == wp_out[Len(wp_out)]

\* lines 136, 270: its value as get_parameters returned it, when resolved
yielded_value ==
    IF get_value THEN gp_returned[1][yielded_name] ELSE <<>>

\* line 147: a consumer that only iterates asks for the next parameter; the
\* generator resumes and adds the name it had yielded
walk_parameters_next ==
    /\ ps_pc = "idle"
    /\ wp_pc = "suspended"
    /\ yielded_param_names' = yielded_param_names \cup {yielded_name}
    /\ wp_pc' = "page"
    /\ UNCHANGED <<path, wp_limit, get_value, wp_q, wp_pages, wp_rest,
                   wp_page, wp_more, wp_total_items, wp_returned, wp_out,
                   wp_suppressed, wp_queries, wp_order>>
    /\ UNCHANGED <<logVars, diffVars, fetchVars, nameVars, pushVars>>

\* the consumer stops iterating (it raises, or it is abandoned): the
\* generator is closed where it is suspended
walk_parameters_close ==
    /\ ps_pc = "idle"
    /\ wp_pc = "suspended"
    /\ wp_pc' = "closed"
    /\ UNCHANGED <<path, wp_limit, get_value, wp_q, wp_pages, wp_rest,
                   wp_page, wp_more, wp_total_items, wp_returned, wp_out,
                   wp_suppressed, wp_queries, wp_order, yielded_param_names>>
    /\ UNCHANGED <<logVars, diffVars, fetchVars, nameVars, pushVars>>

NextWalk ==
    \/ walk_parameters_start
    \/ walk_parameters_describe
    \/ walk_parameters_fetched
    \/ walk_parameters_fetch_raised
    \/ walk_parameters_item
    \/ walk_parameters_page_end
    \/ walk_parameters_next
    \/ walk_parameters_close
    \/ NextFetch

SpecWalk == InitWalk /\ [][NextWalk]_vars

\* number of places of sequence s that hold x
Count(s, x) == Cardinality({i \in 1..Len(s) : s[i] = x})

\* C3: within one invocation no name is yielded twice, whatever the path
\* filters and the pages are, and every name a query has returned has been
\* yielded exactly once as soon as the walk has iterated past it on its
\* page: all of them once the walk is over.
C3_NoNameTwice ==
    /\ \A n \in ParamNames : Count(wp_out, n) <= 1
    /\ \A n \in wp_returned \ Range(wp_page) : Count(wp_out, n) = 1
    /\ wp_pc = "done"
         => wp_page = <<>> /\ \A n \in wp_returned : Count(wp_out, n) = 1

\* C3 witness: two overlapping filters, /a as a prefix and /a/b (prefix
\* and exact name), the traversal is past the first query of the second
\* path, /a/b was returned and yielded, and an item that repeats a name
\* was held back.
C3_Witness ==
    /\ path = << Some(<<"/", "a">>), Some(<<"/", "a", "/", "b">>) >>
    /\ wp_pc = "done"
    /\ <<"/", "a", "/", "b">> \in wp_returned
    /\ Len(wp_out) >= 2
    /\ wp_suppressed

\* sequence s is the beginning of sequence t
IsPrefix(s, t) == Len(s) <= Len(t) /\ SubSeq(t, 1, Len(s)) = s

\* the tuple of paths is empty, or every element of it is a path
PathsGiven == \A i \in 1..Len(path) : TruthyStr(path[i])

\* the queries C14 states for the tuple of paths
StatedPlan ==
    IF path = <<>>
      THEN << [Key |-> "", Values |-> <<>>] >>
      ELSE [k \in 1..(2 * Len(path)) |->
              [Key |-> IF k % 2 = 1 THEN "Path" ELSE "Name",
               Values |-> path[(k + 1) \div 2][1]]]

\* C14: with no path walk_parameters runs exactly one unfiltered query;
\* with paths p1..pn it runs, for each path in turn, the prefix-filter
\* query then the exact-name query of that path, two for each path and all
\* those of pi before those of pi+1 (the queries run so far are always the
\* beginning of that list, and all of it once the walk is over); the output
\* is the names the queries returned, in that order, each at the place
\* where it was first seen.
C14_PlanAndOrder ==
    /\ (PathsGiven /\ wp_pc \notin {"idle", "start"})
          => /\ IsPrefix(wp_queries, StatedPlan)
             /\ wp_pc = "done" => wp_queries = StatedPlan
    /\ wp_out = wp_order

\* C14 witness: a walk over the paths /a and /a/b is over, its four queries
\* were run, a name was returned again by a later query, and /a/b, seen
\* first, comes before /a in the output
C14_Witness ==
    /\ path = << Some(<<"/", "a">>), Some(<<"/", "a", "/", "b">>) >>
    /\ wp_pc = "done"
    /\ Len(wp_queries) = 4
    /\ wp_suppressed
    /\ wp_out = << <<"/", "a", "/", "b">>, <<"/", "a">> >>

\* C15: for every cap k and every tuple of path filters (none, one or
\* several), one traversal yields at most k parameters in total over all
\* the queries it runs.
C15_CapRespected ==
    wp_limit # None => Len(wp_out) <= wp_limit[1]

(***************************************************************************)
(* Python str and re helpers                                               *)
(***************************************************************************)
LowerChars == 
    <<"a", "b", "c", "d", "e", "f", "g", "h", "i", "j", "k", "l", "m",
      "n", "o", "p", "q", "r", "s", "t", "u", "v", "w", "x", "y", "z">>

UpperChars == 
    <<"A", "B", "C", "D", "E", "F", "G", "H", "I", "J", "K", "L", "M",
      "N", "O", "P", "Q", "R", "S", "T", "U", "V", "W", "X", "Y", "Z">>

Digits == {"0", "1", "2", "3", "4", "5", "6", "7", "8", "9"}

IsLetter(c) == \E i \in 1..26 : LowerChars[i] = c \/ UpperChars[i] = c

\* str.lower on one character
lower_char(c) ==
    IF \E i \in 1..26 : UpperChars[i] = c
      THEN LowerChars[CHOOSE i \in 1..26 : UpperChars[i] = c]
      ELSE c

\* str.lower
lower(str) == [i \in 1..Len(str) |-> lower_char(str[i])]

\* str.count of a character
count(str, c) == Cardinality({i \in 1..Len(str) : str[i] = c})

\* the regular expression class \d
IsDigit(c) == c \in Digits

\* the regular expression class \w (of a str pattern: any letter counts)
IsWord(c) == IsLetter(c) \/ IsDigit(c) \/ c = "_" \/ c = "å"

\* the regular expression .  (anything but a line break)
IsDot(c) == c # "\n"

\* whether the characters of lit stand in str from place from on
HasAt(str, from, lit) ==
    /\ from + Len(lit) - 1 <= Len(str)
    /\ \A i \in 1..Len(lit) : str[from + i - 1] = lit[i]

\* membership of a character in a class of the pattern of line 26
InClass(class, c) ==
    CASE class = "w" -> IsWord(c)
      [] class = "d" -> IsDigit(c)
      [] class = "." -> IsDot(c)

\* length of the longest run of characters of a class from place from on
RunLen(str, from, class) ==
    CHOOSE n \in 0..(Len(str) - from + 1) :
      /\ \A i \in from..(from + n - 1) : InClass(class, str[i])
      /\ from + n > Len(str) \/ ~InClass(class, str[from + n])

(***************************************************************************)
(* parameters.is_valid_ssm_name                                            *)
(***************************************************************************)
MAX_NAME_LEN == 1011

MAX_SLASHES == 15

\* line 25:  allowed = "[a-zA-Z0-9_.-]"
allowed(c) == IsLetter(c) \/ IsDigit(c) \/ c = "_" \/ c = "." \/ c = "-"

ARN_HEAD == <<"a", "r", "n", ":", "a", "w", "s", ":", "s", "s", "m", ":">>

ARN_TAIL == <<":", "p", "a", "r", "a", "m", "e", "t", "e", "r">>

\* region and account of the ARN of tests/test_parameters.py line 21
ARN_MID == <<"u", "s", "-", "e", "a", "s", "t", "-", "2", ":", "1", "1", "1", "1", "2", "2", "2", "2", "3", "3", "3", "3">>

\* line 26, group arn:  arn:aws:ssm:\w+-\w+-\d+:\d+:parameter
\* The number of characters the group takes at the start of str, 0 when it
\* does not match there.  Every part is delimited by a character outside
\* its class, so there is one way to match at most.
arn_len(str) ==
    IF ~HasAt(str, 1, ARN_HEAD) THEN 0
    ELSE LET p1 == Len(ARN_HEAD) + 1
             w1 == RunLen(str, p1, "w")
             p2 == p1 + w1 + 1
             w2 == RunLen(str, p2, "w")
             p3 == p2 + w2 + 1
             d1 == RunLen(str, p3, "d")
             p4 == p3 + d1 + 1
             d2 == RunLen(str, p4, "d")
             p5 == p4 + d2
         IN IF /\ w1 >= 1 /\ HasAt(str, p1 + w1, <<"-">>)
               /\ w2 >= 1 /\ HasAt(str, p2 + w2, <<"-">>)
               /\ d1 >= 1 /\ HasAt(str, p3 + d1, <<":">>)
               /\ d2 >= 1 /\ HasAt(str, p5, ARN_TAIL)
              THEN p5 + Len(ARN_TAIL) - 1
              ELSE 0

\* lines 26-28: re.match of (?P<arn>...)?(?P<path>.+): the optional group is
\* taken when something follows it on the line, path is the rest of the
\* line; path stays unbound when there is no match.
arn_path_match(str) ==
    LET a == arn_len(str)
        after == RunLen(str, a + 1, ".")
        whole == RunLen(str, 1, ".")
    IN IF a > 0 /\ after >= 1
         THEN Some(SubSeq(str, a + 1, a + after))
         ELSE IF whole >= 1 THEN Some(SubSeq(str, 1, whole)) ELSE None

\* line 34:  re.match("(?i)/?(aws)|(ssm)", path): the alternatives are
\* /?(aws)  and  (ssm)
reserved_match(p) ==
    \/ HasAt(lower(p), 1, <<"a", "w", "s">>)
    \/ HasAt(lower(p), 1, <<"/", "a", "w", "s">>)
    \/ HasAt(lower(p), 1, <<"s", "s", "m">>)

\* line 36:  re.match(f"^(/|{allowed})+$", path): $ also matches before a
\* line break that ends the string
allowed_match(p) ==
    LET n == IF p # <<>> /\ p[Len(p)] = "\n" THEN Len(p) - 1 ELSE Len(p)
    IN n >= 1 /\ \A i \in 1..n : p[i] = "/" \/ allowed(p[i])

\* a hierarchy test that allows one level more
too_deep_off_by_one(str) == count(str, "/") > MAX_SLASHES + 1

\* line 32
too_deep(str) == count(str, "/") > MAX_SLASHES

Returned(valid, message) ==
    [raised |-> FALSE, valid |-> valid, message |-> message]

UnboundLocalError == [raised |-> TRUE, valid |-> FALSE, message |-> "path"]

\* lines 24-40
is_valid_ssm_name(str) ==
    LET m == arn_path_match(str)
    IN IF Len(str) > MAX_NAME_LEN
         THEN Returned(FALSE, "name cannot be longer than 1011 chars")
       ELSE IF too_deep(str)
         THEN Returned(FALSE,
                       "name cannot have more than 15 levels of hierachy")
       ELSE IF m = None
         THEN UnboundLocalError
       ELSE IF reserved_match(m[1])
         THEN Returned(FALSE, "name cannot start with 'aws' or 'ssm'")
       ELSE IF ~allowed_match(m[1])
         THEN Returned(FALSE, "name uses an illegal character or pattern")
       ELSE IF m[1][1] # "/" /\ count(m[1], "/") > 0
         THEN Returned(FALSE, "name must be fully qualified path")
       ELSE Returned(TRUE, "name is valid")

\* the characters the names of the model are made of
NameChars == {"a", "w", "s", "m", "S", "!"}

\* numbers of "/L" segments: none, one, and those around the greatest depth
TailCounts == {0, 1} \cup {k \in 0..MaxTail : k >= MaxTail - 2}

TailSegment == <<"/", "L">>

RECURSIVE Repeat(_, _)
Repeat(str, k) == IF k = 0 THEN <<>> ELSE str \o Repeat(str, k - 1)

\* the names of tests/test_parameters.py
TestNames == {
    \* /Dev/Production/East/Project-ABC/MyParameter
    <<"/", "D", "e", "v", "/", "P", "r", "o", "d", "u", "c", "t", "i",
      "o", "n", "/", "E", "a", "s", "t", "/", "P", "r", "o", "j", "e",
      "c", "t", "-", "A", "B", "C", "/", "M", "y", "P", "a", "r", "a",
      "m", "e", "t", "e", "r">>,
    \* arn:aws:ssm:us-east-2:111122223333:parameter/param
    <<"a", "r", "n", ":", "a", "w", "s", ":", "s", "s", "m", ":", "u",
      "s", "-", "e", "a", "s", "t", "-", "2", ":", "1", "1", "1", "1",
      "2", "2", "2", "2", "3", "3", "3", "3", ":", "p", "a", "r", "a",
      "m", "e", "t", "e", "r", "/", "p", "a", "r", "a", "m">>,
    \* MyParameter1
    <<"M", "y", "P", "a", "r", "a", "m", "e", "t", "e", "r", "1">>,
    \* /MyParameter2
    <<"/", "M", "y", "P", "a", "r", "a", "m", "e", "t", "e", "r", "2">>,
    \* /Level-1/L2/L3/L4/L5/L6/L7/L8/L9/L10/L11/L12/L13/L14/parameter-name
    <<"/", "L", "e", "v", "e", "l", "-", "1", "/", "L", "2", "/", "L",
      "3", "/", "L", "4", "/", "L", "5", "/", "L", "6", "/", "L", "7",
      "/", "L", "8", "/", "L", "9", "/", "L", "1", "0", "/", "L", "1",
      "1", "/", "L", "1", "2", "/", "L", "1", "3", "/", "L", "1", "4",
      "/", "p", "a", "r", "a", "m", "e", "t", "e", "r", "-", "n", "a",
      "m", "e">>,
    \* /Level-1/L2/L3/L4/L5/L6/L7/L8/L9/L10/L11/L12/L13/L14/15/parameter-name
    <<"/", "L", "e", "v", "e", "l", "-", "1", "/", "L", "2", "/", "L",
      "3", "/", "L", "4", "/", "L", "5", "/", "L", "6", "/", "L", "7",
      "/", "L", "8", "/", "L", "9", "/", "L", "1", "0", "/", "L", "1",
      "1", "/", "L", "1", "2", "/", "L", "1", "3", "/", "L", "1", "4",
      "/", "1", "5", "/", "p", "a", "r", "a", "m", "e", "t", "e", "r",
      "-", "n", "a", "m", "e">>,
    \* /Level-1/L2/L3/L4/L5/L6/L7/L8/L9/L10/L11/L12/L13/L14/L15/L16/parameter-name
    <<"/", "L", "e", "v", "e", "l", "-", "1", "/", "L", "2", "/", "L",
      "3", "/", "L", "4", "/", "L", "5", "/", "L", "6", "/", "L", "7",
      "/", "L", "8", "/", "L", "9", "/", "L", "1", "0", "/", "L", "1",
      "1", "/", "L", "1", "2", "/", "L", "1", "3", "/", "L", "1", "4",
      "/", "L", "1", "5", "/", "L", "1", "6", "/", "p", "a", "r", "a",
      "m", "e", "t", "e", "r", "-", "n", "a", "m", "e">>,
    \* MyParameter3/L1
    <<"M", "y", "P", "a", "r", "a", "m", "e", "t", "e", "r", "3", "/",
      "L", "1">>,
    \* awsTestParameter
    <<"a", "w", "s", "T", "e", "s", "t", "P", "a", "r", "a", "m", "e",
      "t", "e", "r">>,
    \* /aws/testparam1
    <<"/", "a", "w", "s", "/", "t", "e", "s", "t", "p", "a", "r", "a",
      "m", "1">>,
    \* SSM-testparameter
    <<"S", "S", "M", "-", "t", "e", "s", "t", "p", "a", "r", "a", "m",
      "e", "t", "e", "r">>,
    \* /å
    <<"/", "å">> }

\* names of the greatest length accepted and of the first length refused
LongNames == {[i \in 1..n |-> "w"] : n \in {MAX_NAME_LEN, MAX_NAME_LEN + 1}}

\* the names the model validates: a head of free characters, with or
\* without a leading separator and with or without the ARN of a parameter
\* before it, followed by "/L" segments
NameInputs ==
    {arn \o lead \o head \o Repeat(TailSegment, k) :
        arn \in {<<>>, ARN_HEAD \o ARN_MID \o ARN_TAIL},
        lead \in {<<>>, <<"/">>},
        head \in SeqsUpTo(NameChars, MaxHead),
        k \in TailCounts}
      \cup TestNames \cup LongNames

InitName ==
    /\ IdlePush
    /\ IdleLog
    /\ IdleWalk
    /\ IdleDiff
    /\ IdleFetch
    /\ nv_name \in NameInputs
    /\ nv_result = None
    /\ nv_pc = "call"

is_valid_ssm_name_call ==
    /\ nv_pc = "call"
    /\ nv_result' = Some(is_valid_ssm_name(nv_name))
    /\ nv_pc' = "done"
    /\ UNCHANGED nv_name
    /\ UNCHANGED <<logVars, walkVars, diffVars, fetchVars, pushVars>>

NextName == is_valid_ssm_name_call

SpecName == InitName /\ [][NextName]_vars

\* the first path segment of str, behind a leading separator if there is
\* one, starts with "aws" or "ssm" in any letter case
StartsWithReserved(str) ==
    LET seg == IF HasAt(str, 1, <<"/">>) THEN Tail(str) ELSE str
    IN \/ HasAt(lower(seg), 1, <<"a", "w", "s">>)
       \/ HasAt(lower(seg), 1, <<"s", "s", "m">>)

\* str is built only from the allowed characters and separators
OnlyAllowed(str) == \A i \in 1..Len(str) : str[i] = "/" \/ allowed(str[i])

\* str has no separator, or starts with one
BareOrQualified(str) == count(str, "/") = 0 \/ HasAt(str, 1, <<"/">>)

\* C7: a name whose first path segment starts with "aws" or "ssm", in any
\* letter case, bare or behind a leading separator, is refused: the call
\* returns (False, ...).
C7_ReservedRejected ==
    (nv_pc = "done" /\ StartsWithReserved(nv_name))
      => (~nv_result[1].raised /\ ~nv_result[1].valid)

\* a name of the claim's kind: not empty, built only from allowed
\* characters, not starting with a reserved prefix
PlainName(str) ==
    str # <<>> /\ OnlyAllowed(str) /\ ~StartsWithReserved(str)

\* C8 as stated: a name built only from allowed characters that does not
\* start with a reserved prefix is valid iff it has no separator or starts
\* with one, and has at most 15 levels (a level for each "/").
C8_StructureAsStated ==
    (nv_pc = "done" /\ PlainName(nv_name))
      => (nv_result[1].valid
            <=> (BareOrQualified(nv_name) /\ count(nv_name, "/") <= 15))

\* C8 amended: a name built only from allowed characters that does not
\* start with a reserved prefix is valid iff it is at most 1011 characters
\* long, has no separator or starts with one, and has at most 15 levels
\* (a level for each "/").
C8_Structure ==
    (nv_pc = "done" /\ PlainName(nv_name))
      => /\ ~nv_result[1].raised
         /\ nv_result[1].valid
              <=> /\ Len(nv_name) <= 1011
                  /\ BareOrQualified(nv_name)
                  /\ count(nv_name, "/") <= 15

\* C8 witness: the fully qualified path /w/L/.../L of 15 levels has been
\* found valid
C8_Witness ==
    /\ nv_pc = "done"
    /\ nv_name = <<"/", "w">> \o Repeat(TailSegment, 14)
    /\ count(nv_name, "/") = 15
    /\ nv_result[1].valid

(***************************************************************************)
(* parameters.push                                                         *)
(***************************************************************************)
Whitespace == {" ", "\t", "\n"}

\* str.strip
RECURSIVE lstrip(_)
lstrip(str) ==
    IF str # <<>> /\ Head(str) \in Whitespace THEN lstrip(Tail(str)) ELSE str

RECURSIVE rstrip(_)
rstrip(str) ==
    IF str # <<>> /\ str[Len(str)] \in Whitespace
      THEN rstrip(SubSeq(str, 1, Len(str) - 1))
      ELSE str

strip(str) == rstrip(lstrip(str))

\* os.path.join(a, b) of two str
os_path_join(a, b) ==
    IF HasAt(b, 1, <<"/">>) THEN b
    ELSE IF a = <<>> \/ a[Len(a)] = "/" THEN a \o b
    ELSE a \o <<"/">> \o b

\* line 286:  param_name = os.path.join(path, name.strip().lower())
param_name(_path, key) == os_path_join(_path, lower(strip(key)))

\* a test of the validation result that lets every name through
is_valid_ignored(result) == TRUE

\* lines 288-289: the name goes on when is_valid_ssm_name returned True
is_valid(result) == ~result.raised /\ result.valid

\* a confirmation that also takes "y"
confirmed_short(typed) == typed \in {<<"y", "e", "s">>, <<"y">>}

\* line 310:  answer == 'yes'
confirmed(typed) == typed = <<"y", "e", "s">>

\* line 296:  path=tuple(local_params.keys())
keys_tuple(keys) == [i \in 1..Len(keys) |-> Some(keys[i])]

\* a dict to apply that takes the old value of a changed entry
params_to_apply_old(d) ==
    [n \in DOMAIN d.new \cup DOMAIN d.changed |->
        IF n \in DOMAIN d.changed THEN d.changed[n].old ELSE d.new[n]]

\* line 312:  {**diff.new, **{name: chg.new for name, chg in changed.items()}}
params_to_apply(d) ==
    [n \in DOMAIN d.new \cup DOMAIN d.changed |->
        IF n \in DOMAIN d.changed THEN d.changed[n].new ELSE d.new[n]]

\* the keys of the dict of line 312 in its order: those of diff.new, then
\* those of diff.changed, each in the order of local_params
apply_order(d, keys) ==
    LET in_new(k) == k \in DOMAIN d.new
        in_changed(k) == k \in DOMAIN d.changed
    IN SelectSeq(keys, in_new) \o SelectSeq(keys, in_changed)

\* dict.items() of a dict whose keys are in the order keys
items(d, keys) == [i \in 1..Len(keys) |-> [name |-> keys[i], value |-> d[keys[i]]]]

EnvKeys == { <<"K">>, <<"J">>, <<" ", "k">>, <<"!">> }

EnvValues == { <<"1">>, <<"2">> }

\* the items of a dotenv file: a sequence of (key, value) with distinct keys
EnvFiles ==
    {e \in SeqsUpTo([key : EnvKeys, value : EnvValues], MaxEnv) :
        \A i, j \in 1..Len(e) : i # j => e[i].key # e[j].key}

PushPaths == {None, Some(<<"/", "p">>)}

\* the names a parameter store may hold
StoreNames == { <<"/", "p", "/", "k">>, <<"/", "p", "/", "j">> }

Answers == { <<"y", "e", "s">>, <<"y">>, <<"Y", "E", "S">>, <<"n", "o">> }

InitPush ==
    /\ IdleLog
    /\ IdleWalk
    /\ IdleDiff
    /\ IdleGet
    /\ IdleName
    /\ IdlePut
    /\ store \in Dicts(StoreNames, StoreValues)
    /\ store0 = store
    /\ env_out = StdStream
    /\ env_text = <<>>
    /\ env_file \in EnvFiles
    /\ ps_path \in PushPaths
    /\ dry_run \in BOOLEAN
    /\ ps_run = 1
    /\ ps_pc = "load"
    /\ ps_i = 0
    /\ ps_keys = <<>>
    /\ answer = None
    /\ net = [describe |-> 0, get |-> 0, put |-> 0]

\* lines 285-292, one turn of the loop: the key is joined to the path,
\* which raises TypeError when no --path was given, the name is validated,
\* which ends the command with ValueError when it is not valid, and the
\* stripped value is stored under the name
push_load ==
    /\ ps_pc = "load"
    /\ ps_i < Len(env_file)
    /\ LET item == env_file[ps_i + 1] IN
       IF ps_path = None
         THEN /\ ps_pc' = "TypeError"
              /\ UNCHANGED <<ps_i, ps_keys, local_params>>
         ELSE LET pname == param_name(ps_path[1], item.key) IN
              IF ~is_valid(is_valid_ssm_name(pname))
                THEN /\ ps_pc' = "ValueError"
                     /\ UNCHANGED <<ps_i, ps_keys, local_params>>
                ELSE /\ local_params' = Put(local_params, pname,
                                            strip(item.value))
                     /\ ps_keys' = IF pname \in DOMAIN local_params
                                     THEN ps_keys
                                     ELSE Append(ps_keys, pname)
                     /\ ps_i' = ps_i + 1
                     /\ UNCHANGED ps_pc
    /\ UNCHANGED <<env_out, env_text, env_file,
                   ps_path, dry_run, ps_run, answer, net, store0, putVars>>
    /\ UNCHANGED <<remote_params, diff, df_pc>>
    /\ UNCHANGED <<logVars, walkVars, fetchVars, nameVars>>

\* lines 294-296: the loop is over; walk_parameters is called with the
\* keys of local_params and get_value set, and the dict of the remote
\* parameters starts empty
push_walk_start ==
    /\ ps_pc = "load"
    /\ ps_i = Len(env_file)
    /\ ps_pc' = "query"
    /\ path' = keys_tuple(ps_keys)
    /\ wp_limit' = None
    /\ get_value' = TRUE
    /\ wp_pc' = "start"
    /\ remote_params' = <<>>
    /\ UNCHANGED <<wp_q, wp_pages, wp_rest, wp_page, wp_more, wp_total_items,
                   wp_returned, wp_out, wp_suppressed, wp_queries, wp_order,
                   yielded_param_names>>
    /\ UNCHANGED <<env_out, env_text, env_file,
                   ps_path, dry_run, ps_run, ps_i, ps_keys, answer, net,
                   store0, putVars>>
    /\ UNCHANGED <<local_params, diff, df_pc>>
    /\ UNCHANGED <<logVars, fetchVars, nameVars>>

\* lines 294-297, 147: the dict takes the parameter the walk has yielded,
\* the value under the name, and asks for the next one
push_take ==
    /\ ps_pc = "query"
    /\ wp_pc = "suspended"
    /\ remote_params' = Put(remote_params, yielded_name, yielded_value)
    /\ yielded_param_names' = yielded_param_names \cup {yielded_name}
    /\ wp_pc' = "page"
    /\ UNCHANGED <<path, wp_limit, get_value, wp_q, wp_pages, wp_rest,
                   wp_page, wp_more, wp_total_items, wp_returned, wp_out,
                   wp_suppressed, wp_queries, wp_order>>
    /\ UNCHANGED <<local_params, diff, df_pc>>
    /\ UNCHANGED <<logVars, fetchVars, nameVars, pushVars>>

\* lines 294-297: the walk is over and remote_params is complete
push_walked ==
    /\ ps_pc = "query"
    /\ wp_pc = "done"
    /\ ps_pc' = "diff"
    /\ UNCHANGED <<env_out, env_text, env_file,
                   ps_path, dry_run, ps_run, ps_i, ps_keys, answer, net,
                   store0, putVars>>
    /\ UNCHANGED <<logVars, walkVars, diffVars, fetchVars, nameVars>>

\* lines 294-297: a remote call of the walk has failed; the error ends push
push_walk_raised ==
    /\ ps_pc = "query"
    /\ wp_pc = "raised"
    /\ ps_pc' = "RemoteError"
    /\ UNCHANGED <<env_out, env_text, env_file,
                   ps_path, dry_run, ps_run, ps_i, ps_keys, answer, net,
                   store0, putVars>>
    /\ UNCHANGED <<logVars, walkVars, diffVars, fetchVars, nameVars>>

\* lines 299-305, 319-320: the diff is computed and printed; a dry run ends
\* here, an empty diff ends with "Nothing to do", otherwise the operator is
\* asked
push_diff ==
    /\ ps_pc = "diff"
    /\ LET d == diff_params(local_params, remote_params) IN
         /\ diff' = Some(d)
         /\ df_pc' = "done"
         /\ ps_pc' = IF dry_run THEN "NoChangesMade"
                     ELSE IF d.new # <<>> \/ d.changed # <<>> THEN "prompt"
                     ELSE "NothingToDo"
    /\ UNCHANGED <<local_params, remote_params>>
    /\ UNCHANGED <<env_out, env_text, env_file,
                   ps_path, dry_run, ps_run, ps_i, ps_keys, answer, net,
                   store0, putVars>>
    /\ UNCHANGED <<logVars, walkVars, fetchVars, nameVars>>

\* lines 307-317, 85-87: the operator answers; on 'yes' put_parameters is
\* called with the new and the changed entries, otherwise the command ends
\* with "cancelling..."
push_prompt ==
    /\ UNCHANGED put_sent
    /\ ps_pc = "prompt"
    /\ \E typed \in Answers :
         /\ answer' = Some(typed)
         /\ IF confirmed(typed)
              THEN /\ ps_pc' = "apply"
                   /\ pp_parameters' =
                        items(params_to_apply(diff[1]),
                              apply_order(diff[1], ps_keys))
                   /\ pp_pc' = "submit"
                   /\ n_applied' = 0
              ELSE /\ ps_pc' = "Cancelled"
                   /\ UNCHANGED <<pp_parameters, pp_pc, n_applied>>
    /\ UNCHANGED <<pp_task, pp_inspected, pp_error>>
    /\ UNCHANGED <<env_out, env_text, env_file,
                   ps_path, dry_run, ps_run, ps_i, ps_keys, net, store0>>
    /\ UNCHANGED <<logVars, walkVars, diffVars, fetchVars, nameVars>>

(***************************************************************************)
(* parameters.put_parameters, as called by push                            *)
(***************************************************************************)
\* line 72: the types put_parameter accepts
PARAM_TYPES == {"String", "StringList", "SecureString"}

\* lines 70-81: put_parameter raises ValueError for a type it does not
\* accept and sends nothing; otherwise it sends the request, whose
\* Description is  description or ""
put_parameter(pname, value, param_type, description, overwrite) ==
    IF param_type \notin PARAM_TYPES
      THEN [raised |-> TRUE, request |-> None]
      ELSE [raised |-> FALSE,
            request |-> Some([Name |-> pname,
                              Description |-> IF TruthyStr(description)
                                                THEN description[1]
                                                ELSE <<>>,
                              Value |-> value,
                              Type |-> param_type,
                              Overwrite |-> overwrite])]

PutRunning == {i \in DOMAIN pp_task : pp_task[i] = "running"}

\* lines 89-90: executor.submit for the next item; the future is queued
put_parameters_submit ==
    /\ UNCHANGED put_sent
    /\ pp_pc = "submit"
    /\ Len(pp_task) < Len(pp_parameters)
    /\ pp_task' = Append(pp_task, "queued")
    /\ UNCHANGED <<pp_parameters, pp_inspected, n_applied, pp_pc, pp_error>>
    /\ UNCHANGED <<env_out, env_text, env_file,
                   ps_path, dry_run, ps_run, ps_pc, ps_i, ps_keys, answer,
                   net, store0>>
    /\ UNCHANGED <<logVars, walkVars, diffVars, fetchVars, nameVars>>

\* line 92: every item has been submitted, the loop over as_completed starts
put_parameters_submitted ==
    /\ UNCHANGED put_sent
    /\ pp_pc = "submit"
    /\ Len(pp_task) = Len(pp_parameters)
    /\ pp_pc' = "collect"
    /\ UNCHANGED <<pp_parameters, pp_task, pp_inspected, n_applied, pp_error>>
    /\ UNCHANGED <<env_out, env_text, env_file,
                   ps_path, dry_run, ps_run, ps_pc, ps_i, ps_keys, answer,
                   net, store0>>
    /\ UNCHANGED <<logVars, walkVars, diffVars, fetchVars, nameVars>>

\* lines 70-81, 89: a worker thread that has taken a call, made with the
\* type SecureString, no description and overwrite=True, runs it; the call
\* raises at once for a type that is not accepted, and issues the put
\* request otherwise.  The threads overtake each other before they reach
\* the client, so any submitted call that has not started may be the next.
put_worker_start ==
    /\ Cardinality(PutRunning) < MaxWorkers
    /\ \E i \in DOMAIN pp_task :
         /\ pp_task[i] = "queued"
         /\ LET call == put_parameter(pp_parameters[i].name,
                                      pp_parameters[i].value,
                                      "SecureString", None, TRUE)
            IN IF call.raised
                 THEN /\ pp_task' = [pp_task EXCEPT ![i] = "failed"]
                      /\ UNCHANGED <<put_sent, net>>
                 ELSE /\ pp_task' = [pp_task EXCEPT ![i] = "running"]
                      /\ put_sent' = put_sent \cup {call.request[1]}
                      /\ net' = [net EXCEPT !.put = @ + 1]
    /\ UNCHANGED <<pp_parameters, pp_inspected, n_applied, pp_pc, pp_error>>
    /\ UNCHANGED <<env_out, env_text, env_file,
                   ps_path, dry_run, ps_run, ps_pc, ps_i, ps_keys, answer,
                   store0>>
    /\ UNCHANGED <<logVars, walkVars, diffVars, fetchVars, nameVars>>

\* lines 75-82: the put request succeeds: the store holds the value under
\* the name (Overwrite=True), and put_parameter returns
put_worker_return ==
    /\ UNCHANGED put_sent
    /\ \E i \in PutRunning :
         /\ pp_task' = [pp_task EXCEPT ![i] = "ok"]
         /\ store' = Put(store, pp_parameters[i].name, pp_parameters[i].value)
    /\ UNCHANGED <<pp_parameters, pp_inspected, n_applied, pp_pc, pp_error>>
    /\ UNCHANGED <<env_out, env_text, env_file,
                   ps_path, dry_run, ps_run, ps_pc, ps_i, ps_keys, answer,
                   net, store0>>
    /\ UNCHANGED <<parameter_names, gp_task, gp_inspected, results, gp_pc,
                   gp_error, gp_returned>>
    /\ UNCHANGED <<logVars, walkVars, diffVars, nameVars>>

\* lines 75-81: the put request fails and put_parameter raises
put_worker_raise ==
    /\ UNCHANGED put_sent
    /\ \E i \in PutRunning : pp_task' = [pp_task EXCEPT ![i] = "failed"]
    /\ UNCHANGED <<pp_parameters, pp_inspected, n_applied, pp_pc, pp_error>>
    /\ UNCHANGED <<env_out, env_text, env_file,
                   ps_path, dry_run, ps_run, ps_pc, ps_i, ps_keys, answer,
                   net, store0>>
    /\ UNCHANGED <<logVars, walkVars, diffVars, fetchVars, nameVars>>

\* lines 92-97: one turn of the loop: the future as_completed hands over
\* either has an exception, which is raised, or is counted and reported
put_parameters_inspect ==
    /\ UNCHANGED put_sent
    /\ pp_pc = "collect"
    /\ \E i \in as_completed(pp_task, pp_inspected) :
         /\ pp_inspected' = pp_inspected \cup {i}
         /\ IF pp_task[i] = "failed"
              THEN /\ pp_error' = Some(i)
                   /\ pp_pc' = "exit_raise"
                   /\ UNCHANGED n_applied
              ELSE /\ n_applied' = n_applied + 1
                   /\ UNCHANGED <<pp_error, pp_pc>>
    /\ UNCHANGED <<pp_parameters, pp_task>>
    /\ UNCHANGED <<env_out, env_text, env_file,
                   ps_path, dry_run, ps_run, ps_pc, ps_i, ps_keys, answer,
                   net, store0>>
    /\ UNCHANGED <<logVars, walkVars, diffVars, fetchVars, nameVars>>

\* lines 88, 99, 313-314: every future has been handed over; the with
\* block is left, n_applied is returned and push reports "Done!"
put_parameters_return ==
    /\ UNCHANGED put_sent
    /\ pp_pc = "collect"
    /\ pp_inspected = DOMAIN pp_task
    /\ pp_pc' = "returned"
    /\ ps_pc' = "Done"
    /\ UNCHANGED <<pp_parameters, pp_task, pp_inspected, n_applied, pp_error>>
    /\ UNCHANGED <<env_out, env_text, env_file,
                   ps_path, dry_run, ps_run, ps_i, ps_keys, answer, net,
                   store0>>
    /\ UNCHANGED <<logVars, walkVars, diffVars, fetchVars, nameVars>>

\* lines 88, 94, 313: the exception leaves the with block, whose exit
\* waits for every submitted call to finish, and ends push
put_parameters_raise ==
    /\ UNCHANGED put_sent
    /\ pp_pc = "exit_raise"
    /\ shutdown_wait(pp_task)
    /\ pp_pc' = "raised"
    /\ ps_pc' = "ApplyError"
    /\ UNCHANGED <<pp_parameters, pp_task, pp_inspected, n_applied, pp_error>>
    /\ UNCHANGED <<env_out, env_text, env_file,
                   ps_path, dry_run, ps_run, ps_i, ps_keys, answer, net,
                   store0>>
    /\ UNCHANGED <<logVars, walkVars, diffVars, fetchVars, nameVars>>

NextPush ==
    \/ push_load
    \/ push_walk_start
    \/ walk_parameters_start
    \/ walk_parameters_describe
    \/ walk_parameters_fetched
    \/ walk_parameters_fetch_raised
    \/ walk_parameters_item
    \/ walk_parameters_page_end
    \/ NextFetch
    \/ push_take
    \/ push_walked
    \/ push_walk_raised
    \/ push_diff
    \/ push_prompt
    \/ put_parameters_submit
    \/ put_parameters_submitted
    \/ put_worker_start
    \/ put_worker_return
    \/ put_worker_raise
    \/ put_parameters_inspect
    \/ put_parameters_return
    \/ put_parameters_raise

SpecPush == InitPush /\ [][NextPush]_vars

\* the remote operations issued so far
Issued == net.describe + net.get + net.put

\* the name push builds for the i-th key of the file fails validation
InvalidKey(i) ==
    LET result == is_valid_ssm_name(param_name(ps_path[1], env_file[i].key))
    IN result.raised \/ ~result.valid

\* push is still in its loading loop, or has ended there
InLoad == ps_pc \in {"load", "ValueError", "TypeError"}

\* C9: in push a remote operation (describe, get or put) has been issued
\* only if every key of the file was prefixed and validated and found
\* valid: no remote operation is issued while push is in its loading loop
\* or has ended there, the loop is left for the remote query only once
\* every key has been taken and every prefixed key is valid, and it is
\* ended by the ValueError only on a prefixed key that is not valid.
C9_ValidationPrecedesNetwork ==
    /\ [](Issued > 0 => (~InLoad /\ ps_i = Len(env_file)))
    /\ [][(InLoad /\ ~InLoad')
             => /\ ps_i = Len(env_file)
                /\ \A i \in 1..Len(env_file) : ps_path # None /\ ~InvalidKey(i)]_vars
    /\ [][(ps_pc = "load" /\ ps_pc' = "ValueError")
             => (ps_path # None /\ InvalidKey(ps_i + 1))]_vars

\* C9 witness: push has accepted a first key and ended with ValueError on a
\* later one, with no remote operation issued
C9_Witness ==
    /\ ps_pc = "ValueError"
    /\ ps_i >= 1
    /\ InvalidKey(ps_i + 1)
    /\ ~InvalidKey(1)
    /\ Issued = 0

\* the diff push computed has nothing new and nothing changed
NothingToApply == diff[1].new = <<>> /\ diff[1].changed = <<>>

\* C10: in push a put operation is issued only if dry-run was not
\* requested, the diff has a non-empty new or changed set and the operator
\* answered exactly 'yes'; once the diff is computed, a dry run, a diff with
\* nothing new or changed, or any other answer ends the run in one of the
\* normal outcomes with no put operation issued and the store as it was.
C10_WritesGated ==
    /\ net.put > 0
         => /\ ~dry_run
            /\ diff # None
            /\ ~NothingToApply
            /\ answer = Some(<<"y", "e", "s">>)
    /\ ( /\ diff # None
         /\ \/ dry_run
            \/ NothingToApply
            \/ (answer # None /\ answer # Some(<<"y", "e", "s">>)) )
         => /\ ps_pc \in {"NoChangesMade", "NothingToDo", "Cancelled"}
            /\ net.put = 0
            /\ store = store0

\* C10 witness: after the answer 'yes' to a diff with something to apply,
\* without dry-run, a put has been issued and has changed the store
C10_Witness ==
    /\ net.put > 0
    /\ ~dry_run
    /\ ~NothingToApply
    /\ answer = Some(<<"y", "e", "s">>)
    /\ store # store0

(***************************************************************************)
(* parameters.pull, followed by the loader of parameters.push              *)
(***************************************************************************)
\* str.upper on one character
upper_char(c) ==
    IF \E i \in 1..26 : LowerChars[i] = c
      THEN UpperChars[CHOOSE i \in 1..26 : LowerChars[i] = c]
      ELSE c

\* str.upper
upper(str) == [i \in 1..Len(str) |-> upper_char(str[i])]

\* line 269:  param["Name"].split("/")[-1]
last_segment(str) ==
    LET slashes == {i \in 1..Len(str) : str[i] = "/"}
    IN IF slashes = {} THEN str
       ELSE SubSeq(str, (CHOOSE i \in slashes : \A j \in slashes : j <= i) + 1,
                   Len(str))

\* lines 269-271: the line written for one parameter (without its "\n")
env_line(pname, value) == upper(last_segment(pname)) \o <<"=">> \o value

\* place of the first "=" of a line
first_equal(line) ==
    CHOOSE i \in 1..Len(line) : line[i] = "=" /\ \A j \in 1..(i - 1) : line[j] # "="

\* dotenv's reading of one line KEY=VALUE whose value is unquoted and made
\* of letters, digits and blanks: the blanks around the value are dropped
dotenv_binding(line) ==
    [key |-> SubSeq(line, 1, first_equal(line) - 1),
     value |-> strip(SubSeq(line, first_equal(line) + 1, Len(line)))]

\* line 285: dotenv_values(stream).items(): a key read twice keeps its
\* first place and takes its last value
RECURSIVE dotenv_items(_, _)
dotenv_items(acc, lines) ==
    IF lines = <<>> THEN acc
    ELSE LET b == dotenv_binding(Head(lines))
             at == {i \in 1..Len(acc) : acc[i].key = b.key}
         IN dotenv_items(IF at = {} THEN Append(acc, b)
                         ELSE [i \in 1..Len(acc) |->
                                 IF i \in at THEN b ELSE acc[i]],
                         Tail(lines))

dotenv_values(lines) == dotenv_items(<<>>, lines)

\* the path pull and push are given
RoundPath == <<"/", "p">>

\* names of parameters lying directly under RoundPath
RoundNames == { <<"/", "p", "/", "k">>, <<"/", "p", "/", "K">>,
                <<"/", "p", "/", "j">> }

RoundValues == { <<"1">>, <<"2">>, <<" ", "1">> }

\* the values of pull's option --path: none given, or RoundPath
RoundPaths == {<<>>, <<Some(RoundPath)>>}

\* line 262: click.File("w") given the name of a file opens it lazily: the
\* file, which may or may not exist already, is created or truncated by
\* the first write, and is left alone when nothing is written
LazyFile(exists) == [name |-> "FILE", opened |-> FALSE, exists |-> exists]

\* what pull may be given as env_file
PullFiles == {StdStream} \cup {LazyFile(e) : e \in BOOLEAN}

\* what a file that exists before pull is run may hold: nothing, or a line
\* of an earlier export
StaleTexts == { <<>>, << <<"J", "=", "2">> >> }

InitRound ==
    /\ IdleLog
    /\ IdleDiff
    /\ IdleGet
    /\ IdleName
    /\ IdlePut
    /\ store \in Dicts(RoundNames, RoundValues)
    /\ store0 = store
    /\ path \in RoundPaths
    /\ wp_limit = None
    /\ get_value \in BOOLEAN
    /\ wp_pc = "start"
    /\ wp_q = 0
    /\ wp_pages = 0
    /\ wp_rest = <<>>
    /\ wp_page = <<>>
    /\ wp_more = FALSE
    /\ wp_total_items = 0
    /\ wp_returned = {}
    /\ wp_out = <<>>
    /\ wp_suppressed = FALSE
    /\ wp_queries = <<>>
    /\ wp_order = <<>>
    /\ yielded_param_names = {}
    /\ env_out \in PullFiles
    /\ env_text \in IF env_out.name = "FILE" /\ env_out.exists
                      THEN StaleTexts ELSE { <<>> }
    /\ env_file = <<>>
    /\ ps_path = Some(RoundPath)
    /\ dry_run = FALSE
    /\ ps_run = 1
    /\ ps_pc = "pull"
    /\ ps_i = 0
    /\ ps_keys = <<>>
    /\ answer = None
    /\ net = [describe |-> 0, get |-> 0, put |-> 0]

\* lines 262, 268-271, 147: pull writes the line of the parameter the walk
\* has yielded, with its value when --decrypt is set and an empty one
\* otherwise, and asks for the next one; the first write to a named file
\* opens it, which creates it or empties it
pull_write ==
    /\ ps_pc = "pull"
    /\ wp_pc = "suspended"
    /\ env_text' = Append(IF env_out.opened THEN env_text ELSE <<>>,
                          env_line(yielded_name, yielded_value))
    /\ env_out' = [env_out EXCEPT !.opened = TRUE, !.exists = TRUE]
    /\ yielded_param_names' = yielded_param_names \cup {yielded_name}
    /\ wp_pc' = "page"
    /\ UNCHANGED <<path, wp_limit, get_value, wp_q, wp_pages, wp_rest,
                   wp_page, wp_more, wp_total_items, wp_returned, wp_out,
                   wp_suppressed, wp_queries, wp_order>>
    /\ UNCHANGED <<env_file, ps_path, dry_run, ps_run, ps_pc, ps_i, ps_keys,
                   answer, net, store0, putVars>>
    /\ UNCHANGED <<logVars, diffVars, fetchVars, nameVars>>

\* line 268: the walk is over; pull returns, and the file, if pull has
\* opened it, is complete
pull_return ==
    /\ ps_pc = "pull"
    /\ wp_pc = "done"
    /\ ps_pc' = "parse"
    /\ UNCHANGED <<env_out, env_text, env_file, ps_path, dry_run, ps_run, ps_i,
                   ps_keys, answer, net, store0, putVars>>
    /\ UNCHANGED <<logVars, walkVars, diffVars, fetchVars, nameVars>>

\* line 268: a remote call of the walk has failed; pull ends with the error
\* and the file keeps the lines written so far
pull_raise ==
    /\ ps_pc = "pull"
    /\ wp_pc = "raised"
    /\ ps_pc' = "PullError"
    /\ UNCHANGED <<env_out, env_text, env_file, ps_path, dry_run, ps_run, ps_i,
                   ps_keys, answer, net, store0, putVars>>
    /\ UNCHANGED <<logVars, walkVars, diffVars, fetchVars, nameVars>>

\* line 275: push --path P is given what pull was given; click.File("r")
\* opens a named file at once, and when the file does not exist (pull has
\* written nothing and there was none before) the command ends with a
\* usage error, exit code 2, before the body of push is run
push_open_failed ==
    /\ ps_pc = "parse"
    /\ ~env_out.exists
    /\ ps_pc' = "UsageError"
    /\ UNCHANGED <<env_out, env_text, env_file, ps_path, dry_run, ps_run, ps_i,
                   ps_keys, answer, net, store0, putVars>>
    /\ UNCHANGED <<logVars, walkVars, diffVars, fetchVars, nameVars>>

\* lines 275, 284-285: push --path P is given what pull was given and the
\* file exists; dotenv reads the lines it holds, those pull wrote or, when
\* pull wrote nothing to a named file, those it held before, and the loop
\* of push starts
push_read ==
    /\ ps_pc = "parse"
    /\ env_out.exists
    /\ env_file' = dotenv_values(env_text)
    /\ local_params' = <<>>
    /\ ps_pc' = "load"
    /\ UNCHANGED <<env_out, env_text, ps_path, dry_run, ps_run, ps_i, ps_keys, answer,
                   net,
                   store0, putVars>>
    /\ UNCHANGED <<remote_params, diff, df_pc>>
    /\ UNCHANGED <<logVars, walkVars, fetchVars, nameVars>>

NextRound ==
    \/ walk_parameters_start
    \/ walk_parameters_describe
    \/ walk_parameters_fetched
    \/ walk_parameters_fetch_raised
    \/ walk_parameters_item
    \/ walk_parameters_page_end
    \/ NextFetch
    \/ pull_write
    \/ pull_return
    \/ pull_raise
    \/ push_open_failed
    \/ push_read
    \/ push_load

SpecRound == InitRound /\ [][NextRound]_vars

\* the loader of push has taken every item of the file pull wrote
Loaded == ps_pc = "load" /\ ps_i = Len(env_file)

\* pull was given the one path RoundPath and resolves the values
PullResolvedUnderPath == path = <<Some(RoundPath)>> /\ get_value

\* what push reads is what pull wrote: pull had its output open (the
\* stream, or the named file once it has written a line to it)
PullWroteLines == env_out.opened

\* C11: for any set of resolved parameters lying directly under one path
\* P, the lines pull writes for them, read back by the loader of push under
\* P, give a local map with exactly one entry for each exported parameter,
\* whose key is the original name up to letter case and whose value is the
\* original value.
C11_RoundTrip ==
    (Loaded /\ PullResolvedUnderPath /\ PullWroteLines) =>
      /\ Cardinality(DOMAIN local_params) = Cardinality(DOMAIN store)
      /\ \A n \in DOMAIN store :
           \E k \in DOMAIN local_params :
             lower(k) = lower(n) /\ local_params[k] = store[n]

(***************************************************************************)
(* The thread pools of get_parameters and put_parameters                   *)
(***************************************************************************)
\* C16: in get_parameters and put_parameters, once the first failed task
\* has been found, the error reaches the caller at that point: the call can
\* end by raising without waiting for the tasks of the batch that are still
\* running or queued.
C16_ImmediatePropagation ==
    /\ gp_pc = "exit_raise" => ENABLED get_parameters_raise
    /\ pp_pc = "exit_raise" => ENABLED put_parameters_raise

(***************************************************************************)
(* get_parameters, then put_parameters, each called on a batch             *)
(***************************************************************************)
\* the dicts put_parameters may be given, as their items in order
PutBatches ==
    {b \in SeqsUpTo([name : ParamNames, value : { <<"2">> }], MaxBatch) :
        \A i, j \in 1..Len(b) : i # j => b[i].name # b[j].name}

\* lines 85-87, 313: put_parameters is called with a dict of parameters,
\* once the call of get_parameters is over, on the store as it is then
put_parameters_call ==
    /\ gp_pc \in {"returned", "raised"}
    /\ pp_pc = "idle"
    /\ pp_parameters' \in PutBatches
    /\ pp_pc' = "submit"
    /\ ps_pc' = "apply"
    /\ store0' = store
    /\ UNCHANGED <<pp_task, pp_inspected, n_applied, pp_error, put_sent>>
    /\ UNCHANGED <<env_out, env_text, env_file, ps_path, dry_run, ps_run, ps_i,
                   ps_keys, answer, net>>
    /\ UNCHANGED <<logVars, walkVars, diffVars, fetchVars, nameVars>>

NextPools ==
    \/ NextFetch
    \/ put_parameters_call
    \/ put_parameters_submit
    \/ put_parameters_submitted
    \/ put_worker_start
    \/ put_worker_return
    \/ put_worker_raise
    \/ put_parameters_inspect
    \/ put_parameters_return
    \/ put_parameters_raise

SpecPools == InitFetch /\ [][NextPools]_vars

\* the failed futures the loop of get_parameters has been handed
GetFailuresSeen == {i \in gp_inspected : gp_task[i] = "failed"}

\* the failed futures the loop of put_parameters has been handed
PutFailuresSeen == {i \in pp_inspected : pp_task[i] = "failed"}

\* C17: in get_parameters and put_parameters every task of the batch is
\* dispatched before any result is inspected; when the call ends with an
\* error, every task of the batch has run to completion, none was cancelled
\* or skipped (one request was issued for each name of the batch, a put
\* request was sent for each item and every put that succeeded is in the
\* store); the results are discarded (no dict is returned, no count is
\* reported); and one error is surfaced, that of the one failed task the
\* loop has looked at, however many tasks failed.
C17_NoCancellation ==
    /\ gp_inspected # {} => Len(gp_task) = Len(parameter_names)
    /\ pp_inspected # {} => Len(pp_task) = Len(pp_parameters)
    /\ gp_pc = "raised" =>
         /\ DOMAIN gp_task = DOMAIN parameter_names
         /\ \A i \in DOMAIN gp_task : Finished(gp_task[i])
         /\ net.get = Len(parameter_names)
         /\ gp_returned = None
         /\ gp_error # None
         /\ gp_task[gp_error[1]] = "failed"
         /\ GetFailuresSeen = {gp_error[1]}
    /\ pp_pc = "raised" =>
         /\ DOMAIN pp_task = DOMAIN pp_parameters
         /\ \A i \in DOMAIN pp_task : Finished(pp_task[i])
         /\ net.put = Len(pp_parameters)
         /\ {r.Name : r \in put_sent}
              = {pp_parameters[i].name : i \in DOMAIN pp_parameters}
         /\ \A i \in DOMAIN pp_task :
              pp_task[i] = "ok"
                => /\ pp_parameters[i].name \in DOMAIN store
                   /\ store[pp_parameters[i].name] = pp_parameters[i].value
         /\ ps_pc = "ApplyError"
         /\ pp_error # None
         /\ pp_task[pp_error[1]] = "failed"
         /\ PutFailuresSeen = {pp_error[1]}

\* C17 witness: get_parameters has raised the error of its first task; the
\* two other tasks were not inspected and have run to completion, one of
\* them failing too; put_parameters, called next, has raised the error of
\* its first task, and its second task, not inspected, has changed the store
C17_Witness ==
    /\ gp_pc = "raised"
    /\ gp_task = <<"failed", "failed", "ok">>
    /\ gp_inspected = {1}
    /\ gp_error = Some(1)
    /\ gp_returned = None
    /\ net.get = 3
    /\ pp_pc = "raised"
    /\ pp_task = <<"failed", "ok">>
    /\ pp_inspected = {1}
    /\ pp_error = Some(1)
    /\ net.put = 2
    /\ pp_parameters[2].name \notin DOMAIN store0
    /\ store[pp_parameters[2].name] = pp_parameters[2].value

\* a put operation of the batch has failed
PutFailed == \E i \in DOMAIN pp_task : pp_task[i] = "failed"

\* C18: during the apply step of push, once one put operation has failed
\* no put operation takes effect on the remote store afterwards (no later
\* step changes the store), and the command ends in failure.
C18_FailureAbortsWrites ==
    /\ [][PutFailed => store' = store]_vars
    /\ []((PutFailed /\ pp_pc \in {"raised", "returned"})
             => ps_pc = "ApplyError")

\* the names for which a put request has been sent
PutNames == {r.Name : r \in put_sent}

\* C19: in push every put request sent carries a key of new or of changed,
\* never an unchanged key, with the local value of the key (for a changed
\* key its new value, not the remote one), the type SecureString and
\* overwrite enabled; no key is put twice; when the apply step is over a
\* put has been sent for exactly the keys of new and changed; and a remote
\* key that is absent from the local map is never deleted or modified.
C19_ApplyWritesDiff ==
    /\ \A r \in put_sent :
         /\ r.Name \in DOMAIN diff[1].new \cup DOMAIN diff[1].changed
         /\ r.Name \notin DOMAIN diff[1].unchanged
         /\ r.Value = local_params[r.Name]
         /\ r.Type = "SecureString"
         /\ r.Overwrite
    /\ net.put = Cardinality(put_sent)
    /\ net.put = Cardinality(PutNames)
    /\ ps_pc \in {"Done", "ApplyError"}
         => PutNames = DOMAIN diff[1].new \cup DOMAIN diff[1].changed
    /\ \A n \in DOMAIN store0 \ DOMAIN local_params :
         n \in DOMAIN store /\ store[n] = store0[n]

\* C19 witness: a confirmed push with one new and one changed key has ended
\* with both puts applied: the store holds the local values
C19_Witness ==
    /\ ps_pc = "Done"
    /\ diff[1].new # <<>>
    /\ diff[1].changed # <<>>
    /\ Cardinality(put_sent) = 2
    /\ \A k \in DOMAIN local_params : store[k] = local_params[k]

\* C20: for every local map, the empty one included, every describe query
\* push issues carries a Path or Name filter on one of the local keys,
\* never no filter, and the walk is asked to resolve the values.
C20_QueryRestricted ==
    /\ \A i \in 1..Len(wp_queries) :
         /\ wp_queries[i].Key \in {"Path", "Name"}
         /\ wp_queries[i].Values \in DOMAIN local_params
    /\ wp_queries # <<>> => get_value

(***************************************************************************)
(* parameters.push, run again on the same file                             *)
(***************************************************************************)
\* lines 279-284: a run of push that was confirmed and whose writes all
\* succeeded is over; the command is run again with the same file and
\* options against the store as that run left it
push_again ==
    /\ ps_pc = "Done"
    /\ ps_run < MaxRuns
    /\ ps_run' = ps_run + 1
    /\ ps_pc' = "load"
    /\ ps_i' = 0
    /\ ps_keys' = <<>>
    /\ answer' = None
    /\ net' = [describe |-> 0, get |-> 0, put |-> 0]
    /\ store0' = store
    /\ local_params' = <<>>
    /\ remote_params' = <<>>
    /\ diff' = None
    /\ df_pc' = "idle"
    /\ path' = <<>>
    /\ wp_limit' = None
    /\ get_value' = FALSE
    /\ wp_pc' = "idle"
    /\ wp_q' = 0
    /\ wp_pages' = 0
    /\ wp_rest' = <<>>
    /\ wp_page' = <<>>
    /\ wp_more' = FALSE
    /\ wp_total_items' = 0
    /\ wp_returned' = {}
    /\ wp_out' = <<>>
    /\ wp_suppressed' = FALSE
    /\ wp_queries' = <<>>
    /\ wp_order' = <<>>
    /\ yielded_param_names' = {}
    /\ parameter_names' = <<>>
    /\ gp_task' = <<>>
    /\ gp_inspected' = {}
    /\ results' = <<>>
    /\ gp_pc' = "idle"
    /\ gp_error' = None
    /\ gp_returned' = None
    /\ pp_parameters' = <<>>
    /\ pp_task' = <<>>
    /\ pp_inspected' = {}
    /\ n_applied' = 0
    /\ pp_pc' = "idle"
    /\ pp_error' = None
    /\ put_sent' = {}
    /\ UNCHANGED <<env_out, env_text, env_file, ps_path, dry_run, store>>
    /\ UNCHANGED <<logVars, nameVars>>

NextSync == NextPush \/ push_again

SpecSync == InitPush /\ [][NextSync]_vars

\* C21: when a run of push was confirmed and all its writes succeeded, and
\* nobody else modifies the store, a second push of the same file against
\* the resulting store issues no put and leaves the store as it is; the
\* diff it computes has nothing new and nothing changed and has every
\* local key unchanged; and, unless a remote query fails, it ends with
\* "Nothing to do".
C21_SyncIdempotent ==
    ps_run = 2 =>
      /\ net.put = 0
      /\ store = store0
      /\ diff # None =>
           /\ diff[1].new = <<>>
           /\ diff[1].changed = <<>>
           /\ DOMAIN diff[1].unchanged = DOMAIN local_params
           /\ \A k \in DOMAIN local_params : store[k] = local_params[k]
      /\ ps_pc \in {"load", "query", "diff", "RemoteError", "NothingToDo"}

\* C21 witness: the second run of a push of two keys, whose first run had
\* to write, has fetched the values and ended with "Nothing to do"
C21_Witness ==
    /\ ps_run = 2
    /\ ps_pc = "NothingToDo"
    /\ Cardinality(DOMAIN local_params) = 2
    /\ DOMAIN diff[1].unchanged = DOMAIN local_params
    /\ net.get >= 2
    /\ net.put = 0

====
